---- MODULE Spec2Model ----
(***************************************************************************)
(* Verification model of the event-correlation engine of vault-alert-bot   *)
(* (src/bot.py): sliding windows of trade and theme events, the confluence *)
(* detector, per-(vault, coin) cooldowns, first-scan suppression, vault    *)
(* health, rate-limited persistence and the polling loop with its          *)
(* concurrent per-vault workers.                                           *)
(*                                                                         *)
(* Time is an integer number of minutes (all window and cooldown           *)
(* arithmetic of the source is timedelta(minutes=...)).  Every call of     *)
(* datetime.now() is a separate read of the clock: inside one synchronous  *)
(* block a later read may return a later value than an earlier one.        *)
(***************************************************************************)
EXTENDS Integers, Sequences, FiniteSets, TLC

\* ------------------------------------------------------------------ bounds

\* The last minute of a run of the pipeline specification (Spec): three polling
\* cycles of a vault added in the first minute.
MaxTime == 5
\* Number of change events a run of the detector specifications evaluates.
MaxEvals == 3
\* Minutes a detector run lasts beyond the length of its instrument window.
EvalSlack == 2
\* Number of process restarts a run of SpecRestart takes.
MaxRestarts == 1
\* The last minute of a run of SpecRestart: two polling cycles.
MaxTimeRestart == 3
\* The last minute of a run of the pipeline with removals (SpecRemove): a first
\* scan, and a cycle with changes before and after a removal.
MaxTimeRemove == 3
\* Consecutive failed fetches of a vault the pipeline specifications take: enough
\* for mark_vault_failure to deactivate the vault.
MaxFailures == 3
\* Largest position size, in tenths of a unit, of the differ specification.
MaxSize == 2
\* The last tick of a run of the scheduler specifications, and the longest a
\* batch of theirs takes, in ticks.
MaxTicks == 11
MaxBatchTicks == 1
\* Number of stop requests a run of SpecStop takes.
MaxStops == 1
\* The last tick of a run of SpecStop: time for a batch, a stop while it is in
\* flight or after it, and a start.
MaxStopTicks == 3
\* Largest number of user_state calls a run of SpecFetch has in executor
\* threads at a time; the default executor has at least this many threads.
MaxCalls == 5
\* Number of start_monitoring and stop_monitoring calls a run of the engine
\* specification (SpecEngine) takes: start, stop, start and one more.
MaxEngineCalls == 4
\* Number of fills the API gets for the address, and number of polls of
\* monitor_address_continuously, in a run of the fills specification
\* (SpecFills): fills before and after a poll, and polls before and after them.
MaxFills == 4
MaxPolls == 3
\* The clock of the rate-limit specification (SpecBudget), in seconds: its
\* last value, past the end of the first counter minute, and the time between
\* two calls of the client.
MaxBudgetTime == 90
TickSeconds == 30
\* Number of add_vault calls a run of the validation specification (SpecAdd)
\* takes: a first vault, a second one and a refused or overwriting third.
MaxAdds == 3
\* Number of calls of _save_data a run of the persistence specification
\* (SpecSave) takes: enough for a live file, a backup and a save after them.
MaxSaves == 3
\* The last minute of a run of the health specification (SpecHealth): beyond
\* the cool-off of a vault deactivated in its first minutes.
MaxTimeHealth == 40

\* ------------------------------------------------------- program constants

\* BotConfig.VAULT_CHECK_INTERVAL, seconds.
VAULT_CHECK_INTERVAL == 120
\* BotConfig.BATCH_SIZE.
BATCH_SIZE == 3
\* BotConfig.VAULT_DELAY, seconds.
VAULT_DELAY == 12
\* BotConfig.MAX_CONCURRENT_OPERATIONS, the size of _api_semaphore.
MAX_CONCURRENT_OPERATIONS == 3
\* BotConfig.MAX_RETRIES.
MAX_RETRIES == 5
\* BotConfig.RETRY_DELAY_BASE, seconds.
RETRY_DELAY_BASE == 3
\* BotConfig.MIN_TIME_BETWEEN_SAVES, seconds.
MIN_TIME_BETWEEN_SAVES == 5
\* Seconds in one unit of model time (one minute).
SecondsPerMinute == 60
\* mark_vault_failure deactivates at this many consecutive failures.
FailureLimit == 3
\* ThreadSafeVaultData.__init__ defaults.
DefaultConfluenceThreshold == 1
DefaultConfluenceWindow == 10
DefaultCooldown == 5
DefaultThemeThreshold == 2
DefaultThemeWindow == 15
\* coinglass_bot.py: "Minimum change threshold" Decimal('0.1'), in tenths.
MinChangeTenths == 1
\* health_monitor_loop: seconds since the last success after which an inactive
\* vault is reactivated, and seconds between two passes of the loop.
REACTIVATE_AFTER == 1800
HEALTH_CHECK_INTERVAL == 300

\* ------------------------------------------------------------------ domain

\* Vault display names (the keys of _vaults) and their addresses.
Names == {"A", "B"}
Addresses == {"0xa", "0xb"}
AddressOf(n) == IF n = "A" THEN "0xa" ELSE "0xb"

\* The coin the vaults of the pipeline specification trade.
Coins == {"RNDR"}
\* Coins of the detector specification: two of one theme.
EvalCoins == {"RNDR", "FET"}
\* Coins of the theme specification: one with a theme, one without.
ThemeCoins == {"RNDR", "HYPE"}
AllCoins == Coins \cup EvalCoins \cup ThemeCoins
Sizes == {0, 1}

None == "None"
Abs(x) == IF x >= 0 THEN x ELSE -x

\* The elements of a sequence.
Range(s) == {s[i] : i \in 1..Len(s)}
\* Number of positions of seq s holding x.
Count(s, x) == Cardinality({i \in 1..Len(s) : s[i] = x})
\* All orders of a finite set, as sequences without repetition.
Orders(S) ==
  {s \in [1..Cardinality(S) -> S] : \A i, j \in 1..Cardinality(S) : i # j => s[i] # s[j]}

\* An empty holdings map: no coin has a position.
NoPositions == [c \in AllCoins |-> 0]

\* Python dictionaries are functions on the set of their keys.
EmptyDict == [k \in {} |-> None]
Put(d, k, x) == [j \in DOMAIN d \cup {k} |-> IF j = k THEN x ELSE d[j]]

VARIABLES
  now,                 \* the wall clock, in minutes
  settings,            \* _confluence_threshold, _confluence_window_minutes, ...
  vaults,              \* _vaults: name -> VaultInfo
  previous_positions,  \* _previous_positions: address -> holdings
  last_alerts,         \* _last_alerts: address -> coin -> time of last alert
  trade_events,        \* _trade_events
  theme_events,        \* _theme_events
  is_monitoring,       \* _is_monitoring
  loop,                \* monitoring_loop: its position and wake-up time
  wk,                  \* one check_vault_changes task per vault name
  disk,                \* the persisted state file: <<>> or <<content>>
  last_save_time,      \* _last_save_time
  restarts,            \* number of restarts taken
  api,                 \* _api_semaphore and the user_state calls in executor threads
  hist,                \* observations of the run used to state the properties
  lastEval             \* the last evaluation of the detector specification

\* _api_semaphore with every permit free and no call in an executor thread.
IdleApi == [semaphore |-> MAX_CONCURRENT_OPERATIONS, calls |-> [n \in Names |-> 0]]

vars == <<now, settings, vaults, previous_positions, last_alerts, trade_events,
          theme_events, is_monitoring, loop, wk, disk, last_save_time, restarts,
          api, hist, lastEval>>

\* ------------------------------------------------------------- TradeEvent

TradeEvent(name, address, coin, old, new, ts) ==
  [vault_name |-> name, vault_address |-> address, coin |-> coin,
   old_size |-> old, new_size |-> new, timestamp |-> ts]

size_change(e) == Abs(e.new_size - e.old_size)

trade_type(e) ==
  IF e.old_size = 0 THEN "OPEN"
  ELSE IF e.new_size = 0 THEN "CLOSE"
  ELSE IF e.new_size > e.old_size THEN "INCREASE"
  ELSE "DECREASE"

ThemeEvent(theme, e) ==
  [theme |-> theme, vault_name |-> e.vault_name, vault_address |-> e.vault_address,
   coin |-> e.coin, trade_type |-> trade_type(e), size_change |-> size_change(e),
   timestamp |-> e.timestamp]

\* ------------------------------------------------------- TokenCategorizer

\* token_to_category restricted to the coins of the model.
\* The mutant of get_token_category that finds a theme for every token.
get_token_category_all(token) == "AI"

get_token_category(token) ==
  IF token \in {"RNDR", "FET"} THEN "AI" ELSE None

\* ---------------------------------------------------- sliding window store

\* get_confluence_events keeping the event that lies exactly on the cutoff.
get_confluence_events_ge(events, coin, current_time, window) ==
  LET cutoff_time == current_time - window
      Keep(e) == e.coin = coin /\ e.timestamp >= cutoff_time
  IN  SelectSeq(events, Keep)

\* get_confluence_events without the cutoff.
get_confluence_events_all(events, coin, current_time, window) ==
  LET Keep(e) == e.coin = coin
  IN  SelectSeq(events, Keep)

get_confluence_events(events, coin, current_time, window) ==
  LET cutoff_time == current_time - window
      Keep(e) == e.coin = coin /\ e.timestamp > cutoff_time
  IN  SelectSeq(events, Keep)

\* `clock` is the value datetime.now() returns inside add_trade_event.
add_trade_event(events, event, clock, window) ==
  LET cutoff_time == clock - window
      Keep(e) == e.timestamp > cutoff_time
  IN  SelectSeq(Append(events, event), Keep)

get_theme_events(events, theme, current_time, window) ==
  LET cutoff_time == current_time - window
      Keep(e) == e.theme = theme /\ e.timestamp > cutoff_time
  IN  SelectSeq(events, Keep)

add_theme_event(events, event, clock, window) ==
  LET cutoff_time == clock - window
      Keep(e) == e.timestamp > cutoff_time
  IN  SelectSeq(Append(events, event), Keep)

\* Distinct vault names of a list of events.
UniqueVaults(events) == {e.vault_name : e \in Range(events)}

\* ---------------------------------------------------- confluence detector

\* ConfluenceCheck counting the trigger vault again although the window
\* already holds an event of it.
ConfluenceCheck_double(events, ev, clock, st) ==
  LET window == st.confluence_window_minutes
      existing_confluence_events ==
        get_confluence_events(events, ev.coin, ev.timestamp, window)
      total_unique_vaults == Cardinality(UniqueVaults(existing_confluence_events)) + 1
      added == add_trade_event(events, ev, clock, window)
      hit == total_unique_vaults >= st.confluence_threshold
  IN  [events   |-> added,
       existing |-> existing_confluence_events,
       total    |-> total_unique_vaults,
       alert    |-> hit,
       group    |-> IF hit
                    THEN get_confluence_events(added, ev.coin, ev.timestamp, window)
                    ELSE <<>>]

\* ConfluenceCheck alerting only above the threshold.
ConfluenceCheck_above(events, ev, clock, st) ==
  LET window == st.confluence_window_minutes
      existing_confluence_events ==
        get_confluence_events(events, ev.coin, ev.timestamp, window)
      existing_unique_vaults == Cardinality(UniqueVaults(existing_confluence_events))
      current_vault_already_counted ==
        \E i \in 1..Len(existing_confluence_events) :
          existing_confluence_events[i].vault_name = ev.vault_name
      total_unique_vaults ==
        existing_unique_vaults + (IF current_vault_already_counted THEN 0 ELSE 1)
      added == add_trade_event(events, ev, clock, window)
      hit == total_unique_vaults > st.confluence_threshold
  IN  [events   |-> added,
       existing |-> existing_confluence_events,
       total    |-> total_unique_vaults,
       alert    |-> hit,
       group    |-> IF hit
                    THEN get_confluence_events(added, ev.coin, ev.timestamp, window)
                    ELSE <<>>]

\* The instrument-level detection of check_vault_changes for one TradeEvent:
\* count the window before the insert, insert, and re-read on a hit.
\* `clock` is what datetime.now() returns inside add_trade_event.
\* ConfluenceCheck yielding between its count and its insert: the events other
\* tasks insert in the meantime (those stamped with the same time) are not
\* counted.
ConfluenceCheck_interleaved(events, ev, clock, st) ==
  LET window == st.confluence_window_minutes
      before == SelectSeq(events, LAMBDA e : e.timestamp < ev.timestamp)
      existing_confluence_events ==
        get_confluence_events(before, ev.coin, ev.timestamp, window)
      existing_unique_vaults == Cardinality(UniqueVaults(existing_confluence_events))
      current_vault_already_counted ==
        \E i \in 1..Len(existing_confluence_events) :
          existing_confluence_events[i].vault_name = ev.vault_name
      total_unique_vaults ==
        existing_unique_vaults + (IF current_vault_already_counted THEN 0 ELSE 1)
      added == add_trade_event(events, ev, clock, window)
      hit == total_unique_vaults >= st.confluence_threshold
  IN  [events   |-> added,
       existing |-> existing_confluence_events,
       total    |-> total_unique_vaults,
       alert    |-> hit,
       group    |-> IF hit
                    THEN get_confluence_events(added, ev.coin, ev.timestamp, window)
                    ELSE <<>>]

ConfluenceCheck(events, ev, clock, st) ==
  LET window == st.confluence_window_minutes
      existing_confluence_events ==
        get_confluence_events(events, ev.coin, ev.timestamp, window)
      existing_unique_vaults == Cardinality(UniqueVaults(existing_confluence_events))
      current_vault_already_counted ==
        \E i \in 1..Len(existing_confluence_events) :
          existing_confluence_events[i].vault_name = ev.vault_name
      total_unique_vaults ==
        existing_unique_vaults + (IF current_vault_already_counted THEN 0 ELSE 1)
      added == add_trade_event(events, ev, clock, window)
      hit == total_unique_vaults >= st.confluence_threshold
  IN  [events   |-> added,
       existing |-> existing_confluence_events,
       total    |-> total_unique_vaults,
       alert    |-> hit,
       group    |-> IF hit
                    THEN get_confluence_events(added, ev.coin, ev.timestamp, window)
                    ELSE <<>>]

\* ThreadSafeVaultData.check_theme_confluence, followed by the caller's
\* re-count of the returned group (check_vault_changes, theme detection).
ThemeCheck(events, ev, clock, st) ==
  LET category == get_token_category(ev.coin)
      window == st.theme_window_minutes
      theme_event == ThemeEvent(category, ev)
      existing_theme_events == get_theme_events(events, category, ev.timestamp, window)
      existing_unique_vaults == Cardinality(UniqueVaults(existing_theme_events))
      current_vault_already_counted ==
        \E i \in 1..Len(existing_theme_events) :
          existing_theme_events[i].vault_name = ev.vault_name
      total_unique_vaults ==
        existing_unique_vaults + (IF current_vault_already_counted THEN 0 ELSE 1)
      added == add_theme_event(events, theme_event, clock, window)
      returned == total_unique_vaults >= st.theme_threshold
      all_theme_events == get_theme_events(added, category, ev.timestamp, window)
  IN  IF ~st.theme_alerts_enabled \/ category = None
      THEN [events |-> events, ran |-> FALSE, theme |-> None, existing |-> <<>>,
            total |-> 0, alert |-> FALSE, group |-> <<>>]
      ELSE [events   |-> added,
            ran      |-> TRUE,
            theme    |-> category,
            existing |-> existing_theme_events,
            total    |-> total_unique_vaults,
            alert    |-> returned /\
                         Cardinality(UniqueVaults(all_theme_events)) >= st.theme_threshold,
            group    |-> IF returned THEN all_theme_events ELSE <<>>]

\* ------------------------------------------------ detector specification
\* SpecEval feeds sequences of change events of two vaults to the detector,
\* as the loop body of check_vault_changes does for a vault that is past its
\* first scan and not on cooldown.  Thresholds and windows are those of the
\* loaded settings.

Settings(k, w, tk, tw) ==
  [confluence_threshold |-> k, confluence_window_minutes |-> w,
   cooldown_minutes |-> DefaultCooldown, theme_alerts_enabled |-> TRUE,
   theme_threshold |-> tk, theme_window_minutes |-> tw]

\* Settings drawn by the detector specification: an instrument window longer than
\* the poll interval, a wider theme window, thresholds one and two.
EvalSettings == {Settings(k, 3, DefaultThemeThreshold, 4) : k \in {1, 2}}

NoEval == [alert |-> FALSE, theme_alert |-> FALSE, ran |-> FALSE]

\* The last instant of a detector run: past the expiry of an event of time 0.
EvalHorizon == settings.confluence_window_minutes + EvalSlack

\* The pipeline state, which the detector specification leaves alone.
pipelineVars == <<vaults, last_alerts, is_monitoring, loop, wk, disk, last_save_time,
                  restarts, api>>

InitDetector(S) ==
  /\ now = 0
  /\ settings \in S
  /\ vaults = EmptyDict
  /\ previous_positions = [a \in Addresses |-> NoPositions]
  /\ last_alerts = EmptyDict
  /\ trade_events = <<>>
  /\ theme_events = <<>>
  /\ is_monitoring = FALSE
  /\ loop = [pc |-> "off", wake |-> 0]
  /\ wk = EmptyDict
  /\ disk = <<>>
  /\ last_save_time = 0
  /\ restarts = 0
  /\ api = IdleApi
  /\ hist = [inserted |-> {}]
  /\ lastEval = NoEval

\* The clock moves on by a minute.
EvalTick ==
  /\ now < EvalHorizon
  /\ now' = now + 1
  /\ UNCHANGED <<settings, previous_positions, trade_events, theme_events, hist,
                 lastEval, pipelineVars>>

\* Vault n is seen with size `new` of `coin`, which differs from its previous
\* size.  tk = 1: the clock ticks between the creation of the TradeEvent and
\* the clock reads of add_trade_event and add_theme_event.  Two polls of one
\* vault are VAULT_CHECK_INTERVAL apart.
Evaluate(n, coin, new, tk) ==
  LET address == AddressOf(n)
      old == previous_positions[address][coin]
      ev == TradeEvent(n, address, coin, old, new, now)
      clock == now + tk
      c == ConfluenceCheck(trade_events, ev, clock, settings)
      t == ThemeCheck(theme_events, ev, clock, settings)
  IN  /\ Cardinality(hist.inserted) < MaxEvals
      /\ new # old
      /\ clock <= EvalHorizon
      /\ \A e \in hist.inserted :
           (e.vault_name = n /\ e.coin = coin) =>
             (e.timestamp + VAULT_CHECK_INTERVAL \div SecondsPerMinute <= now)
      /\ trade_events' = c.events
      /\ theme_events' = t.events
      /\ now' = clock
      /\ previous_positions' =
           [previous_positions EXCEPT ![address] = [@ EXCEPT ![coin] = new]]
      /\ hist' = [inserted |-> hist.inserted \cup {ev}]
      /\ lastEval' = [ran |-> TRUE, ev |-> ev, clock |-> clock,
                      existing |-> c.existing, alert |-> c.alert, group |-> c.group,
                      theme |-> t.theme, theme_existing |-> t.existing,
                      theme_alert |-> t.alert, theme_group |-> t.group]
      /\ UNCHANGED <<settings, pipelineVars>>

InitEval == InitDetector(EvalSettings)

NextEval ==
  \/ EvalTick
  \/ \E n \in Names, coin \in EvalCoins, new \in Sizes, tk \in {0, 1} :
       Evaluate(n, coin, new, tk)

SpecEval == InitEval /\ [][NextEval]_vars

\* SpecTheme feeds the detector change events on a coin with a theme and on a
\* coin without one.
NextTheme ==
  \/ EvalTick
  \/ \E n \in Names, coin \in ThemeCoins, new \in Sizes, tk \in {0, 1} :
       Evaluate(n, coin, new, tk)

SpecTheme == InitEval /\ [][NextTheme]_vars

\* The scenario of the specification's section 8: threshold 2, window 5 minutes,
\* two vaults, one instrument.
ScenarioSettings == {Settings(2, 5, DefaultThemeThreshold, 6)}

InitScenario == InitDetector(ScenarioSettings)

NextScenario ==
  \/ EvalTick
  \/ \E n \in Names, new \in Sizes, tk \in {0, 1} : Evaluate(n, "RNDR", new, tk)

SpecScenario == InitScenario /\ [][NextScenario]_vars

\* ------------------------------------------------------------- VaultInfo

\* VaultInfo(address, name) as add_vault creates it.  last_successful_check is
\* <<>> for Python's None and <<t>> for the time t.  The call counter and the
\* average response time feed no decision and are left out.
VaultInfo(address) ==
  [address |-> address, last_successful_check |-> <<>>, consecutive_failures |-> 0,
   is_active |-> TRUE, first_scan_completed |-> FALSE]

DefaultSettings ==
  Settings(DefaultConfluenceThreshold, DefaultConfluenceWindow, DefaultThemeThreshold,
           DefaultThemeWindow)

\* ----------------------------------------------------------- persistence

\* What _save_data writes: every vault's to_dict() and the settings.
save_data(v, st) == [vaults |-> v, settings |-> st]

\* _safe_save at clock reading `clock`: skipped within MIN_TIME_BETWEEN_SAVES of
\* the last save.  p is the pair [disk, last_save_time].
safe_save(p, clock, v, st) ==
  IF (clock - p.last_save_time) * SecondsPerMinute < MIN_TIME_BETWEEN_SAVES
  THEN p
  ELSE [disk |-> <<save_data(v, st)>>, last_save_time |-> clock]

\* ------------------------------------------------------------------ health

\* The mutant of mark_vault_failure that deactivates one failure late.
mark_vault_failure_late(v, n) ==
  LET failures == v[n].consecutive_failures + 1
  IN  IF n \notin DOMAIN v THEN v ELSE
      [v EXCEPT ![n] = [@ EXCEPT !.consecutive_failures = failures,
                                 !.is_active = IF failures > FailureLimit
                                               THEN FALSE ELSE @]]

\* The mutant of mark_vault_failure that drops the vault it deactivates.
mark_vault_failure_drop(v, n) ==
  LET failures == v[n].consecutive_failures + 1
  IN  IF n \notin DOMAIN v THEN v ELSE
      IF failures >= FailureLimit
      THEN [x \in DOMAIN v \ {n} |-> v[x]]
      ELSE [v EXCEPT ![n] = [@ EXCEPT !.consecutive_failures = failures]]

\* mark_vault_failure: one more consecutive failure; at FailureLimit the vault
\* is deactivated.  (The caller saves.)
mark_vault_failure(v, n) ==
  LET failures == v[n].consecutive_failures + 1
  IN  IF n \notin DOMAIN v THEN v ELSE
      [v EXCEPT ![n] = [@ EXCEPT !.consecutive_failures = failures,
                                 !.is_active = IF failures >= FailureLimit
                                               THEN FALSE ELSE @]]

\* The mutant of mark_vault_success that leaves the failure count alone.
mark_vault_success_keep(v, n, clock) ==
  IF n \notin DOMAIN v THEN v ELSE
  [v EXCEPT ![n] = [@ EXCEPT !.last_successful_check = <<clock>>, !.is_active = TRUE]]

\* mark_vault_success at clock reading `clock`.  (The caller saves.)
mark_vault_success(v, n, clock) ==
  IF n \notin DOMAIN v THEN v ELSE
  [v EXCEPT ![n] = [@ EXCEPT !.consecutive_failures = 0,
                             !.last_successful_check = <<clock>>,
                             !.is_active = TRUE]]

complete_first_scan(v, n) ==
  IF n \notin DOMAIN v THEN v ELSE
  [v EXCEPT ![n] = [@ EXCEPT !.first_scan_completed = TRUE]]

\* get_active_vaults, as names.
get_active_vaults(v) == {n \in DOMAIN v : v[n].is_active}

\* ---------------------------------------------------------------- cooldown

\* The mutant of is_cooldown_active that never reports a cooldown.
is_cooldown_active_never(la, address, coin, clock, cooldown) == FALSE

is_cooldown_active(la, address, coin, clock, cooldown) ==
  IF address \notin DOMAIN la THEN FALSE
  ELSE IF coin \notin DOMAIN la[address] THEN FALSE
  ELSE clock < la[address][coin] + cooldown


set_cooldown(la, address, coin, clock) ==
  LET entry == IF address \in DOMAIN la THEN la[address] ELSE EmptyDict
  IN  Put(la, address, Put(entry, coin, clock))

\* The mutant of SetCooldowns that marks the vault of the trigger event only,
\* the last event of the group.
SetCooldowns_trigger(la, v, group, coin, clock) ==
  IF group = <<>> THEN la
  ELSE LET name == group[Len(group)].vault_name
       IN  IF name \in DOMAIN v THEN set_cooldown(la, v[name].address, coin, clock)
           ELSE la

\* "Set cooldown for all involved vaults": for every event of the group whose
\* vault name is still configured, set_cooldown(vault.address, coin).
RECURSIVE SetCooldowns(_, _, _, _, _)
SetCooldowns(la, v, group, coin, clock) ==
  IF group = <<>> THEN la
  ELSE LET name == Head(group).vault_name
           la1 == IF name \in DOMAIN v
                  THEN set_cooldown(la, v[name].address, coin, clock)
                  ELSE la
       IN  SetCooldowns(la1, v, Tail(group), coin, clock)

\* ------------------------------------------------------------------ differ
\* Sizes of this section are in tenths of a unit.  A snapshot is a dictionary
\* coin -> size, as get_vault_positions returns it.

\* What the API returns for one coin of assetPositions: no entry, an entry whose
\* szi is a number (0: the string '0' or no szi key), or an entry that cannot
\* be parsed (no 'coin' key, szi not a number).
RawEntries ==
  {[kind |-> "absent", szi |-> 0], [kind |-> "malformed", szi |-> 0]}
    \cup {[kind |-> "ok", szi |-> k] : k \in -MaxSize..MaxSize}
DiffCoins == {"RNDR", "HYPE"}
RawStates == [DiffCoins -> RawEntries]

\* The mutant of parse_positions that keeps the sign of szi.
parse_positions_signed(raw) ==
  LET kept == {c \in DOMAIN raw : raw[c].kind = "ok" /\ raw[c].szi # 0}
  IN  [c \in kept |-> raw[c].szi]

\* get_vault_positions: an entry with szi '0' is left out, as is an entry whose
\* parsing raises; the size is the absolute value of szi.
parse_positions(raw) ==
  LET kept == {c \in DOMAIN raw : raw[c].kind = "ok" /\ raw[c].szi # 0}
  IN  [c \in kept |-> Abs(raw[c].szi)]

\* current_pos.size if current_pos else Decimal('0')
size_of(positions, coin) == IF coin \in DOMAIN positions THEN positions[coin] ELSE 0

\* The mutant of all_coins that looks at the current snapshot only.
all_coins_current(previous, current) == DOMAIN current

\* all_coins = set(current_positions.keys()) | set(previous_positions.keys())
all_coins(previous, current) == DOMAIN current \cup DOMAIN previous

\* bot.py: if current_size != previous_size
position_changed(previous_size, current_size) == current_size # previous_size

\* The mutant of significant_change that includes the threshold itself.
significant_change_ge(old_size, new_size) == Abs(new_size - old_size) >= MinChangeTenths

\* coinglass_bot.py: if abs(new_size - old_size) > Decimal('0.1')
significant_change(old_size, new_size) == Abs(new_size - old_size) > MinChangeTenths

\* The TradeEvents the loop over all_coins of check_vault_changes builds for a
\* vault that is on no cooldown, in the order `todo` of the iteration.
RECURSIVE DiffLoop(_, _, _, _, _)
DiffLoop(n, previous, current, todo, ts) ==
  IF todo = <<>> THEN <<>>
  ELSE LET coin == Head(todo)
           current_size == size_of(current, coin)
           previous_size == size_of(previous, coin)
           rest == DiffLoop(n, previous, current, Tail(todo), ts)
       IN  IF position_changed(previous_size, current_size)
           THEN <<TradeEvent(n, AddressOf(n), coin, previous_size, current_size, ts)>>
                  \o rest
           ELSE rest

\* The same loop of CoinGlassWhaleBot._check_vault.
RECURSIVE CoinglassDiffLoop(_, _, _, _, _)
CoinglassDiffLoop(n, previous, current, todo, ts) ==
  IF todo = <<>> THEN <<>>
  ELSE LET symbol == Head(todo)
           new_size == size_of(current, symbol)
           old_size == size_of(previous, symbol)
           rest == CoinglassDiffLoop(n, previous, current, Tail(todo), ts)
       IN  IF significant_change(old_size, new_size)
           THEN <<TradeEvent(n, AddressOf(n), symbol, old_size, new_size, ts)>> \o rest
           ELSE rest

\* SpecDiff: one vault past its first scan is polled again and again; every
\* poll returns some API state, which is parsed and diffed against the stored
\* snapshot, and the parsed snapshot replaces the stored one.  lastEval holds
\* the last poll: the API state (raw) and that of the poll before
\* (previous_raw), the two snapshots and the events of both differs.
NoDiff == [ran |-> FALSE, raw |-> [c \in DiffCoins |-> [kind |-> "absent", szi |-> 0]],
           previous_raw |-> [c \in DiffCoins |-> [kind |-> "absent", szi |-> 0]],
           previous |-> EmptyDict, current |-> EmptyDict, events |-> <<>>,
           coinglass_events |-> <<>>]

InitDiff ==
  /\ now = 0
  /\ settings = DefaultSettings
  /\ vaults = EmptyDict
  /\ previous_positions = [a \in {AddressOf("A")} |-> EmptyDict]
  /\ last_alerts = EmptyDict
  /\ trade_events = <<>>
  /\ theme_events = <<>>
  /\ is_monitoring = FALSE
  /\ loop = [pc |-> "off", wake |-> 0]
  /\ wk = EmptyDict
  /\ disk = <<>>
  /\ last_save_time = 0
  /\ restarts = 0
  /\ api = IdleApi
  /\ hist = [inserted |-> {}]
  /\ lastEval = NoDiff

DiffPoll(n, raw, order) ==
  LET address == AddressOf(n)
      previous == previous_positions[address]
      current == parse_positions(raw)
  IN  /\ order \in Orders(all_coins(previous, current))
      /\ previous_positions' = [previous_positions EXCEPT ![address] = current]
      /\ lastEval' = [ran |-> TRUE, raw |-> raw, previous_raw |-> lastEval.raw,
                      previous |-> previous,
                      current |-> current,
                      events |-> DiffLoop(n, previous, current, order, now),
                      coinglass_events |->
                        CoinglassDiffLoop(n, previous, current, order, now)]
      /\ UNCHANGED <<now, settings, vaults, last_alerts, trade_events, theme_events,
                     is_monitoring, loop, wk, disk, last_save_time, restarts, api, hist>>

NextDiff ==
  \E raw \in RawStates :
    \E order \in UNION {Orders(S) : S \in SUBSET DiffCoins} : DiffPoll("A", raw, order)

SpecDiff == InitDiff /\ [][NextDiff]_vars

\* ------------------------------------------------- check_vault_changes loop

\* True when the vault has a cooldown entry for the coin that has not run out:
\* the case in which a change must be dropped.
OnCooldown(la, address, coin, clock, cooldown) ==
  /\ address \in DOMAIN la
  /\ coin \in DOMAIN la[address]
  /\ clock < la[address][coin] + cooldown

\* The TradeEvent slot of a task that holds none.
NoEvent == TradeEvent(None, None, None, 0, 0, 0)

\* The for-loop over all_coins from the coin at the head of `todo` up to the
\* next await (send_confluence_alert, send_theme_alert) or the end of the loop.
\* m holds what the block reads and writes: the windows (tev, thev), the
\* cooldown map (la), the clock (clk) and the coins that changed while on
\* cooldown (cooled).  tk > 0: the clock ticks while the tk-th TradeEvent of the
\* block is evaluated, between its creation and add_trade_event.
RECURSIVE RunLoop(_, _, _, _, _, _, _)
RECURSIVE ThemePhase(_, _, _, _, _, _, _, _)

ThemePhase(m, n, cur, prev, ev, rest, tk, st) ==
  LET t == ThemeCheck(m.thev, ev, m.clk, st)
      m1 == [m EXCEPT !.thev = t.events]
  IN  IF t.alert
      THEN [m |-> m1, pc |-> "theme_alert", ev |-> ev, group |-> t.group, todo |-> rest]
      ELSE RunLoop(m1, n, cur, prev, rest, tk, st)

RunLoop(m, n, cur, prev, todo, tk, st) ==
  IF todo = <<>>
  THEN [m |-> m, pc |-> "done", ev |-> NoEvent, group |-> <<>>, todo |-> <<>>]
  ELSE
    LET coin == Head(todo)
        rest == Tail(todo)
        address == AddressOf(n)
        current_size == cur[coin]
        previous_size == prev[coin]
    IN  IF ~position_changed(previous_size, current_size)
        THEN RunLoop(m, n, cur, prev, rest, tk, st)
        ELSE
          LET mc == IF OnCooldown(m.la, address, coin, m.clk, st.cooldown_minutes)
                    THEN [m EXCEPT !.cooled = @ \cup {coin}] ELSE m
          IN  IF is_cooldown_active(m.la, address, coin, m.clk, st.cooldown_minutes)
              THEN RunLoop(mc, n, cur, prev, rest, tk, st)
              ELSE
                LET ev == TradeEvent(n, address, coin, previous_size, current_size, m.clk)
                    clock == IF tk = 1 THEN m.clk + 1 ELSE m.clk
                    c == ConfluenceCheck(m.tev, ev, clock, st)
                    m1 == [mc EXCEPT !.tev = c.events, !.clk = clock]
                    tk1 == IF tk > 0 THEN tk - 1 ELSE 0
                IN  IF c.alert
                    THEN [m |-> m1, pc |-> "confluence_alert", ev |-> ev,
                          group |-> c.group, todo |-> rest]
                    ELSE ThemePhase(m1, n, cur, prev, ev, rest, tk1, st)

\* ----------------------------------------------------- pipeline actions
\* Spec is the running bot: vaults are added by command, monitoring_loop starts
\* one check_vault_changes task per active vault and gathers them, the tasks
\* interleave at their awaits, and the process may be restarted from its
\* persisted state.  Everything between two awaits of a task is one step.

IdleWorker ==
  [pc |-> "idle", cur |-> NoPositions, todo |-> <<>>, ev |-> NoEvent, group |-> <<>>,
   cooled |-> {}, vault_info |-> <<>>]

\* The VaultInfo object check_vault_changes was called with: the configured
\* vault of the name, or, once that vault has been removed, the object as it
\* was at its removal, which the task of n still holds (wk[n].vault_info).
task_vault_info(n) ==
  IF wk[n].vault_info # <<>> THEN wk[n].vault_info[1] ELSE vaults[n]

\* _safe_save as mark_vault_failure, mark_vault_success and complete_first_scan
\* call it: only when a configured vault has the address.
safe_save_found(p, clock, v, n, st) ==
  IF n \in DOMAIN v THEN safe_save(p, clock, v, st) ELSE p

\* Holdings a fetch can return in the pipeline specification.
Holdings == {h \in [AllCoins -> Sizes] : \A c \in AllCoins \ Coins : h[c] = 0}

\* The confluence threshold /setvaults is called with.
Thresholds == {2}

\* get_previous_positions: the stored snapshot of the address, {} if there is none.
get_previous_positions(pp, address) ==
  IF address \in DOMAIN pp THEN pp[address] ELSE NoPositions

\* The observations the properties of the pipeline are stated with: for each
\* vault how its first successful poll went ("pending", "done", or
\* "done_after_failure"), whether it has had a successful poll since the last
\* restart, for each (vault, coin) the time an alert with the vault in its
\* group last fired in this run of the process, and for each vault the number
\* of its failed fetches since its last successful one (failRun) and in all
\* (failTotal); a restarted process counts on from the failures it loads.
\* undelivered holds the vaults whose task has awaited a confluence alert that
\* the chat did not get.
InitHist == [firstPoll |-> [n \in Names |-> "pending"],
             undelivered |-> {},
             sinceRestart |-> [n \in Names |-> FALSE],
             alerted |-> EmptyDict,
             failRun |-> [n \in Names |-> 0],
             failTotal |-> [n \in Names |-> 0]]

\* hst after the block result r: if r fires a confluence alert, its time is
\* noted for every vault of the group.
Fired(hst, r) ==
  IF r.pc # "confluence_alert" THEN hst
  ELSE LET keys == {<<v, r.ev.coin>> : v \in UniqueVaults(r.group)}
       IN  [hst EXCEPT !.alerted =
              [k \in DOMAIN @ \cup keys |-> IF k \in keys THEN r.m.clk ELSE @[k]]]

Init ==
  /\ now = 1
  /\ settings = DefaultSettings
  /\ vaults = EmptyDict
  /\ previous_positions = EmptyDict
  /\ last_alerts = EmptyDict
  /\ trade_events = <<>>
  /\ theme_events = <<>>
  /\ is_monitoring = FALSE
  /\ loop = [pc |-> "off", wake |-> 0]
  /\ wk = [n \in Names |-> IdleWorker]
  /\ disk = <<>>
  /\ last_save_time = 0
  /\ restarts = 0
  /\ api = IdleApi
  /\ hist = InitHist
  /\ lastEval = NoEval

\* A minute passes.  monitoring_loop wakes up when its sleep is over, so time
\* does not pass the wake-up time while the loop sleeps.
Tick(horizon) ==
  /\ now < horizon
  /\ loop.pc = "sleep" => now < loop.wake
  /\ now' = now + 1
  /\ UNCHANGED <<settings, vaults, previous_positions, last_alerts, trade_events,
                 theme_events, is_monitoring, loop, wk, disk, last_save_time, restarts, api,
                 hist, lastEval>>

\* start_monitoring: sets the flag and creates the monitoring_loop task, which
\* runs its first cycle at once.
started_loop == [pc |-> "sleep", wake |-> now]

\* /add_vault <address> <name> with a well-formed address: add_vault rejects a
\* name or an address already present; otherwise it stores the vault with empty
\* snapshot and cooldown maps and saves at once, and the command starts the
\* monitoring if it is not running.
add_vault_command(address, name) ==
  /\ name \notin DOMAIN vaults
  /\ \A x \in DOMAIN vaults : vaults[x].address # address
  /\ vaults' = Put(vaults, name, VaultInfo(address))
  /\ previous_positions' = Put(previous_positions, address, NoPositions)
  /\ last_alerts' = Put(last_alerts, address, EmptyDict)
  /\ disk' = <<save_data(vaults', settings)>>
  /\ IF is_monitoring
     THEN UNCHANGED <<is_monitoring, loop>>
     ELSE is_monitoring' = TRUE /\ loop' = started_loop
  /\ UNCHANGED <<now, settings, trade_events, theme_events, wk, last_save_time,
                 restarts, api, hist, lastEval>>

\* /setvaults <number>, 1 <= number <= 10.
set_vault_number_command(threshold) ==
  LET st == [settings EXCEPT !.confluence_threshold = threshold]
      p == safe_save([disk |-> disk, last_save_time |-> last_save_time], now, vaults, st)
  IN  /\ threshold # settings.confluence_threshold
      /\ settings' = st
      /\ disk' = p.disk
      /\ last_save_time' = p.last_save_time
      /\ UNCHANGED <<now, vaults, previous_positions, last_alerts, trade_events,
                     theme_events, is_monitoring, loop, wk, restarts, api, hist, lastEval>>

\* monitoring_loop wakes up: with no active vault it sleeps another interval,
\* otherwise it creates the tasks of the batch and gathers them.  Every task
\* runs up to its fetch; check_vault_changes returns at once for a vault that
\* is not active.
LoopCycle ==
  LET active_vaults == get_active_vaults(vaults)
  IN  /\ is_monitoring
      /\ loop.pc = "sleep"
      /\ now >= loop.wake
      /\ Cardinality(active_vaults) <= BATCH_SIZE
      /\ IF active_vaults = {}
         THEN /\ loop' = [pc |-> "sleep",
                          wake |-> now + VAULT_CHECK_INTERVAL \div SecondsPerMinute]
              /\ wk' = wk
         ELSE /\ loop' = [loop EXCEPT !.pc = "gather"]
              /\ wk' = [n \in Names |->
                          IF n \in active_vaults /\ vaults[n].is_active
                          THEN [IdleWorker EXCEPT !.pc = "fetch"]
                          ELSE wk[n]]
      /\ UNCHANGED <<now, settings, vaults, previous_positions, last_alerts,
                     trade_events, theme_events, is_monitoring, disk, last_save_time,
                     restarts, api, hist, lastEval>>

\* asyncio.gather returns once every task of the batch has returned; the loop
\* then sleeps VAULT_CHECK_INTERVAL.
GatherDone ==
  /\ loop.pc = "gather"
  /\ \A n \in Names : wk[n].pc = "idle"
  /\ loop' = [pc |-> "sleep", wake |-> now + VAULT_CHECK_INTERVAL \div SecondsPerMinute]
  /\ wk' = [n \in Names |-> IdleWorker]
  /\ UNCHANGED <<now, settings, vaults, previous_positions, last_alerts, trade_events,
                 theme_events, is_monitoring, disk, last_save_time, restarts, api, hist,
                 lastEval>>

\* The block of a task that ended at the await of an alert, or at the end of
\* check_vault_changes, whose last statement is update_previous_positions.
Resume(n, cur, r, hst) ==
  /\ r.m.clk <= MaxTime
  /\ hist' = Fired(hst, r)
  /\ now' = r.m.clk
  /\ trade_events' = r.m.tev
  /\ theme_events' = r.m.thev
  /\ last_alerts' = r.m.la
  /\ wk' = [wk EXCEPT ![n] =
              [pc |-> IF r.pc = "done" THEN "idle" ELSE r.pc, cur |-> cur,
               todo |-> r.todo, ev |-> r.ev, group |-> r.group, cooled |-> r.m.cooled,
               vault_info |-> IF r.pc = "done" THEN <<>> ELSE wk[n].vault_info]]
  /\ previous_positions' =
       IF r.pc = "done"
       THEN Put(previous_positions, AddressOf(n), cur)
       ELSE previous_positions

\* The mutant of FirstScanPending that treats no scan as the first.
FirstScanPending_never(info) == FALSE

\* Line 1343 of check_vault_changes: is this the vault's first scan?
FirstScanPending(info) == ~info.first_scan_completed

\* check_vault_changes from the line after the await of get_vault_positions,
\* which returned the dictionary current_positions: either the first scan
\* (snapshot stored, complete_first_scan, return) or the diff loop over
\* all_coins in the iteration order `order` of the set.  v1 and p1 are the
\* vaults and the file as the fetch left them, hst is hist after the fetch.
check_vault_changes(n, current_positions, order, tk, v1, p1, hst) ==
  LET address == AddressOf(n)
      previous == get_previous_positions(previous_positions, address)
      held_coins == {c \in AllCoins : current_positions[c] # 0 \/ previous[c] # 0}
      m0 == [tev |-> trade_events, thev |-> theme_events, la |-> last_alerts,
             clk |-> now, cooled |-> {}]
      r == RunLoop(m0, n, current_positions, previous, order, tk, settings)
  IN  IF FirstScanPending(task_vault_info(n))
      THEN LET v2 == complete_first_scan(v1, n)
               p2 == safe_save_found(p1, now, v2, n, settings)
           IN  /\ tk = 0
               /\ order = <<>>
               /\ previous_positions' = Put(previous_positions, address, current_positions)
               /\ vaults' = v2
               /\ disk' = p2.disk
               /\ last_save_time' = p2.last_save_time
               /\ wk' = [wk EXCEPT ![n] = [IdleWorker EXCEPT !.cur = current_positions]]
               /\ hist' = hst
               /\ UNCHANGED <<now, trade_events, theme_events, last_alerts>>
      ELSE /\ order \in Orders(held_coins)
           /\ vaults' = v1
           /\ disk' = p1.disk
           /\ last_save_time' = p1.last_save_time
           /\ Resume(n, current_positions, r, hst)

\* The fetch of vault n returns holdings h: mark_vault_success, then
\* check_vault_changes goes on with them.
FetchOk(n, h, order, tk) ==
  LET v1 == mark_vault_success(vaults, n, now)
      p1 == safe_save_found([disk |-> disk, last_save_time |-> last_save_time], now, v1, n,
                            settings)
      done == [hist EXCEPT !.sinceRestart[n] = (restarts > 0),
                           !.failRun[n] = 0,
                           !.firstPoll[n] =
                             IF @ # "pending" THEN @
                             ELSE IF task_vault_info(n).consecutive_failures > 0
                                  THEN "done_after_failure" ELSE "done"]
  IN  /\ wk[n].pc = "fetch"
      /\ UNCHANGED <<settings, is_monitoring, loop, restarts, api, lastEval>>
      /\ check_vault_changes(n, h, order, tk, v1, p1, done)

\* The mutant of failed_positions that returns the empty dictionary, no
\* positions, for a fetch that failed.
failed_positions_empty == <<NoPositions>>

\* What get_vault_positions returns when safe_api_call has used up its
\* retries, or when it raises: None (no value), never the empty dictionary.
failed_positions == <<>>

\* safe_api_call runs out of retries: mark_vault_failure, get_vault_positions
\* returns None and check_vault_changes returns.
FetchFail(n) ==
  LET v1 == mark_vault_failure(vaults, n)
      p == safe_save_found([disk |-> disk, last_save_time |-> last_save_time], now, v1, n,
                           settings)
      failed == [hist EXCEPT !.failRun[n] = @ + 1, !.failTotal[n] = @ + 1]
      current_positions == failed_positions
  IN  /\ wk[n].pc = "fetch"
      /\ task_vault_info(n).consecutive_failures < MaxFailures
      /\ UNCHANGED <<settings, is_monitoring, loop, restarts, api, lastEval>>
      /\ IF current_positions = <<>>
         THEN /\ vaults' = v1
              /\ disk' = p.disk
              /\ last_save_time' = p.last_save_time
              /\ wk' = [wk EXCEPT ![n].pc = "idle", ![n].vault_info = <<>>]
              /\ hist' = failed
              /\ UNCHANGED <<now, previous_positions, last_alerts, trade_events,
                             theme_events>>
         ELSE \E order \in {<<>>} \cup UNION {Orders(S) : S \in SUBSET AllCoins} :
                check_vault_changes(n, current_positions[1], order, 0, v1, p, failed)

\* The mutant of send_confluence_alert that lets the error of a message that
\* is not delivered out to its caller.
send_confluence_alert_raises(delivered) == IF delivered THEN "returned" ELSE "raised"

\* How the await of send_confluence_alert ends when the message is delivered
\* to the chat or not: send_alert catches every Exception of bot.send_message
\* and logs it, and send_confluence_alert catches what is raised before or
\* after it, and what its fallback message raises.
send_confluence_alert(delivered) == "returned"

\* The await of send_confluence_alert ends, the message delivered or not.  When
\* it returns, cooldowns are set for the vaults of the group, the theme
\* detection of the same TradeEvent runs and the loop goes on; an exception
\* would end check_vault_changes in its handler, mark_vault_failure.
AlertSent(n, tk, delivered) ==
  LET w == wk[n]
      la1 == SetCooldowns(last_alerts, vaults, w.group, w.ev.coin, now)
      previous == get_previous_positions(previous_positions, AddressOf(n))
      m0 == [tev |-> trade_events, thev |-> theme_events, la |-> la1, clk |-> now,
             cooled |-> w.cooled]
      r == ThemePhase(m0, n, w.cur, previous, w.ev, w.todo, tk, settings)
      v1 == mark_vault_failure(vaults, n)
      p == safe_save_found([disk |-> disk, last_save_time |-> last_save_time], now, v1, n,
                           settings)
  IN  /\ w.pc = "confluence_alert"
      /\ IF send_confluence_alert(delivered) = "returned"
         THEN /\ Resume(n, w.cur, r,
                        IF delivered THEN hist
                        ELSE [hist EXCEPT !.undelivered = @ \cup {n}])
              /\ UNCHANGED <<settings, vaults, is_monitoring, loop, disk, last_save_time,
                             restarts, api, lastEval>>
         ELSE /\ tk = 0
              /\ vaults' = v1
              /\ disk' = p.disk
              /\ last_save_time' = p.last_save_time
              /\ wk' = [wk EXCEPT ![n] = [IdleWorker EXCEPT !.cur = w.cur]]
              /\ hist' = [hist EXCEPT !.failRun[n] = @ + 1, !.failTotal[n] = @ + 1,
                                      !.undelivered = @ \cup {n}]
              /\ UNCHANGED <<now, settings, previous_positions, last_alerts,
                             trade_events, theme_events, is_monitoring, loop, restarts,
                             api, lastEval>>

\* send_theme_alert returns: the loop goes on with the next coin.
ThemeSent(n, tk) ==
  LET w == wk[n]
      previous == get_previous_positions(previous_positions, AddressOf(n))
      m0 == [tev |-> trade_events, thev |-> theme_events, la |-> last_alerts,
             clk |-> now, cooled |-> w.cooled]
      r == RunLoop(m0, n, w.cur, previous, w.todo, tk, settings)
  IN  /\ w.pc = "theme_alert"
      /\ Resume(n, w.cur, r, hist)
      /\ UNCHANGED <<settings, vaults, is_monitoring, loop, disk, last_save_time,
                     restarts, api, lastEval>>

\* The process stops at any point and is started again: every task and all
\* in-memory state are gone, ThreadSafeVaultData.__init__ sets the defaults and
\* _load_data reads the persisted vaults and settings, giving each vault empty
\* snapshot and cooldown maps; main() starts the monitoring if vaults exist.
Restart ==
  LET loaded == IF disk = <<>> THEN EmptyDict ELSE disk[1].vaults
      held == {loaded[n].address : n \in DOMAIN loaded}
  IN  /\ restarts < MaxRestarts
      /\ restarts' = restarts + 1
      /\ api' = IdleApi
      /\ vaults' = loaded
      /\ settings' = IF disk = <<>> THEN DefaultSettings ELSE disk[1].settings
      /\ previous_positions' = [a \in held |-> NoPositions]
      /\ last_alerts' = [a \in held |-> EmptyDict]
      /\ trade_events' = <<>>
      /\ theme_events' = <<>>
      /\ last_save_time' = 0
      /\ wk' = [n \in Names |-> IdleWorker]
      /\ is_monitoring' = (loaded # EmptyDict)
      /\ loop' = IF loaded # EmptyDict THEN started_loop ELSE [pc |-> "off", wake |-> 0]
      /\ LET known == [n \in Names |-> IF n \in DOMAIN loaded
                                         THEN loaded[n].consecutive_failures ELSE 0]
         IN  hist' = [hist EXCEPT !.sinceRestart = [n \in Names |-> FALSE],
                                  !.alerted = EmptyDict,
                                  !.failRun = known,
                                  !.failTotal = known]
      /\ UNCHANGED <<now, disk, lastEval>>

\* A step of the bot in one run of the process.
Step ==
  \/ \E n \in Names : add_vault_command(AddressOf(n), n)
  \/ \E k \in Thresholds : set_vault_number_command(k)
  \/ LoopCycle
  \/ GatherDone
  \/ \E n \in Names : FetchFail(n)
  \/ \E n \in Names, h \in Holdings, tk \in {0, 1} :
       \E order \in {<<>>} \cup UNION {Orders(S) : S \in SUBSET AllCoins} :
         FetchOk(n, h, order, tk)
  \/ \E n \in Names, tk \in {0, 1}, delivered \in BOOLEAN : AlertSent(n, tk, delivered)
  \/ \E n \in Names, tk \in {0, 1} : ThemeSent(n, tk)

\* One run of the process, from its first start.
Next ==
  \/ Tick(MaxTime)
  \/ Step

Spec == Init /\ [][Next]_vars

\* The process with restarts.
NextRestart ==
  \/ Tick(MaxTimeRestart)
  \/ Step
  \/ Restart

SpecRestart == Init /\ [][NextRestart]_vars

\* /remove_vault <name>: remove_vault deletes the vault and pops its snapshot
\* and its cooldown map, and saves; the event windows are not touched.  A
\* check of the vault that is in flight keeps the VaultInfo it was called with.
remove_vault_command(name) ==
  LET address == vaults[name].address
  IN  /\ name \in DOMAIN vaults
      /\ vaults' = [x \in DOMAIN vaults \ {name} |-> vaults[x]]
      /\ previous_positions' =
           [a \in DOMAIN previous_positions \ {address} |-> previous_positions[a]]
      /\ last_alerts' = [a \in DOMAIN last_alerts \ {address} |-> last_alerts[a]]
      /\ disk' = <<save_data(vaults', settings)>>
      /\ wk' = [wk EXCEPT ![name].vault_info =
                   IF wk[name].pc # "idle" /\ @ = <<>> THEN <<vaults[name]>> ELSE @]
      /\ UNCHANGED <<now, settings, trade_events, theme_events, is_monitoring, loop,
                     last_save_time, restarts, api, hist, lastEval>>

\* One run of the process in which vaults are removed as well as added.
NextRemove ==
  \/ Tick(MaxTimeRemove)
  \/ Step
  \/ \E n \in Names : remove_vault_command(n)

SpecRemove == Init /\ [][NextRemove]_vars

\* ----------------------------------------------------------- safe_api_call
\* SpecFetch takes the fetches of one batch attempt by attempt.  (The pipeline
\* specifications take a fetch as one step with its outcome: a batch has at
\* most BATCH_SIZE tasks and the semaphore as many permits, so no task of the
\* pipeline ever waits for a permit.)  wk[n] is the position of the task of
\* vault n in safe_api_call, the number of its attempt, the seconds of its last
\* backoff sleep and what get_vault_positions got back; api.calls[n] is the
\* number of calls self.info.user_state(address of n) running in threads of the
\* default executor.  hist counts, for each task, the calls it submitted and
\* the attempts that ended in a timeout or in an error.

\* The calls to the upstream API in progress.
CallsInProgress(a) == a.calls["A"] + a.calls["B"]

InitFetch ==
  /\ now = 1
  /\ settings = DefaultSettings
  /\ vaults = [n \in Names |-> VaultInfo(AddressOf(n))]
  /\ previous_positions = [a \in Addresses |-> NoPositions]
  /\ last_alerts = [a \in Addresses |-> EmptyDict]
  /\ trade_events = <<>>
  /\ theme_events = <<>>
  /\ is_monitoring = TRUE
  /\ loop = [pc |-> "gather", wake |-> 1]
  /\ wk = [n \in Names |-> [pc |-> "acquire", attempt |-> 0, delay |-> 0,
                            result |-> "pending"]]
  /\ disk = <<save_data(vaults, settings)>>
  /\ last_save_time = 0
  /\ restarts = 0
  /\ api = IdleApi
  /\ hist = [submitted |-> [n \in Names |-> 0], timeouts |-> [n \in Names |-> 0],
             errors |-> [n \in Names |-> 0]]
  /\ lastEval = NoEval

\* What the fetch layer leaves alone.
fetchFrame ==
  <<now, settings, previous_positions, last_alerts, trade_events, theme_events,
    is_monitoring, loop, restarts, lastEval>>

\* run_in_executor(None, lambda: self.info.user_state(...)): the call starts in
\* a thread of the default executor.
submit(a, n) == [a EXCEPT !.calls[n] = @ + 1]

\* async with self._api_semaphore, entered: the task takes a permit and its
\* first attempt submits the call and awaits it under wait_for.
Acquire(n) ==
  /\ wk[n].pc = "acquire"
  /\ api.semaphore > 0
  /\ CallsInProgress(api) < MaxCalls
  /\ api' = submit([api EXCEPT !.semaphore = @ - 1], n)
  /\ wk' = [wk EXCEPT ![n].pc = "call"]
  /\ hist' = [hist EXCEPT !.submitted[n] = @ + 1]
  /\ UNCHANGED <<vaults, disk, last_save_time>>
  /\ UNCHANGED fetchFrame

\* The awaited call returns the user state: mark_vault_success, return, and
\* the permit is released.
CallReturns(n) ==
  LET v1 == mark_vault_success(vaults, n, now)
      p == safe_save([disk |-> disk, last_save_time |-> last_save_time], now, v1, settings)
  IN  /\ wk[n].pc = "call"
      /\ api' = [api EXCEPT !.calls[n] = @ - 1, !.semaphore = @ + 1]
      /\ vaults' = v1
      /\ disk' = p.disk
      /\ last_save_time' = p.last_save_time
      /\ wk' = [wk EXCEPT ![n].pc = "done", ![n].result = "user_state"]
      /\ UNCHANGED <<hist, fetchFrame>>

\* The mutant of backoff_delay with the same delay after every attempt.
backoff_delay_flat(attempt) == RETRY_DELAY_BASE

\* delay = BotConfig.RETRY_DELAY_BASE ** (attempt + 1), seconds.
backoff_delay(attempt) == RETRY_DELAY_BASE ^ (attempt + 1)

\* The attempt of task n has failed, with a1 the api state after it: before the
\* last attempt the task sleeps the backoff; after it, mark_vault_failure,
\* safe_api_call returns None, and the permit is released;
\* get_vault_positions passes the None on.
AttemptFailed(n, a1) ==
  IF wk[n].attempt < MAX_RETRIES - 1
  THEN /\ api' = a1
       /\ wk' = [wk EXCEPT ![n].pc = "backoff",
                           ![n].delay = backoff_delay(wk[n].attempt)]
       /\ UNCHANGED <<vaults, disk, last_save_time>>
  ELSE LET v1 == mark_vault_failure(vaults, n)
           p == safe_save([disk |-> disk, last_save_time |-> last_save_time], now, v1,
                          settings)
       IN  /\ api' = [a1 EXCEPT !.semaphore = @ + 1]
           /\ vaults' = v1
           /\ disk' = p.disk
           /\ last_save_time' = p.last_save_time
           /\ wk' = [wk EXCEPT ![n].pc = "done", ![n].result = "None"]

\* The mutant of wait_for_timeout in which the timeout ends the call.
wait_for_timeout_stops(a, n) == [a EXCEPT !.calls[n] = @ - 1]

\* asyncio.wait_for gives up after API_TIMEOUT_SECONDS: the future of the
\* executor is cancelled, which does not stop a call that is already running
\* in its thread.
wait_for_timeout(a, n) == a

\* The awaited call raises: the attempt has failed and its thread is free.
CallRaises(n) ==
  /\ wk[n].pc = "call"
  /\ AttemptFailed(n, [api EXCEPT !.calls[n] = @ - 1])
  /\ hist' = [hist EXCEPT !.errors[n] = @ + 1]
  /\ UNCHANGED fetchFrame

\* The awaited call takes longer than the timeout: the attempt has failed.
CallTimesOut(n) ==
  /\ wk[n].pc = "call"
  /\ AttemptFailed(n, wait_for_timeout(api, n))
  /\ hist' = [hist EXCEPT !.timeouts[n] = @ + 1]
  /\ UNCHANGED fetchFrame

\* The backoff sleep is over: the next attempt submits a new call.
Retry(n) ==
  /\ wk[n].pc = "backoff"
  /\ CallsInProgress(api) < MaxCalls
  /\ api' = submit(api, n)
  /\ wk' = [wk EXCEPT ![n].pc = "call", ![n].attempt = @ + 1]
  /\ hist' = [hist EXCEPT !.submitted[n] = @ + 1]
  /\ UNCHANGED <<vaults, disk, last_save_time>>
  /\ UNCHANGED fetchFrame

\* A call that nobody awaits any more (its attempt timed out) ends in its
\* thread, with a response or an error that is dropped.
AbandonedCallEnds(n) ==
  /\ api.calls[n] > (IF wk[n].pc = "call" THEN 1 ELSE 0)
  /\ api' = [api EXCEPT !.calls[n] = @ - 1]
  /\ UNCHANGED <<vaults, disk, last_save_time, wk, hist>>
  /\ UNCHANGED fetchFrame

NextFetch ==
  \/ \E n \in Names : Acquire(n)
  \/ \E n \in Names : CallReturns(n)
  \/ \E n \in Names : CallRaises(n)
  \/ \E n \in Names : CallTimesOut(n)
  \/ \E n \in Names : Retry(n)
  \/ \E n \in Names : AbandonedCallEnds(n)

SpecFetch == InitFetch /\ [][NextFetch]_vars

\* --------------------------------------------------------- monitoring_loop
\* The scheduler specifications take monitoring_loop batch by batch, with more
\* vaults than a batch holds, and a check_vault_changes task by its awaits
\* only.  Their clock counts ticks of SecondsPerTick seconds.  loop is the
\* position of monitoring_loop with its local variables: active_vaults, the
\* value `start` of the batch loop's range, the variable i and the wake-up time
\* of its sleep.  wk[n] is the task of vault n: "none" (no task), "fetch" (at
\* the await of the fetch), "alert" (at the await of an alert: its event is in
\* the windows, the snapshot not yet updated), or how it ended: "done" (the
\* snapshot is updated), "failed" (the fetch failed), "errored" (an exception
\* was caught by check_vault_changes), "cancelled" (at its fetch), "abandoned"
\* (cancelled at its alert).

SecondsPerTick == VAULT_DELAY

\* The vault names, in the order they were added (the order of the dict).
VaultOrder == <<"V1", "V2", "V3", "V4", "V5", "V6", "V7">>

\* get_active_vaults as the list it is.
active_vault_list(v) ==
  SelectSeq(VaultOrder, LAMBDA n : n \in DOMAIN v /\ v[n].is_active)

NoTask == "none"
Settled == {"none", "done", "failed", "errored", "cancelled", "abandoned"}

\* The numbers of vaults a run of the scheduler specifications starts with: a
\* full batch, and a full batch with one more vault.
VaultCounts == {BATCH_SIZE, BATCH_SIZE + 1}

\* _safe_save on the clock of the scheduler specifications.
safe_save_ticks(p, clock, v, st) ==
  IF (clock - p.last_save_time) * SecondsPerTick < MIN_TIME_BETWEEN_SAVES
  THEN p
  ELSE [disk |-> <<save_data(v, st)>>, last_save_time |-> clock]

\* The mutant of batch_of that leaves out the last vault of a full batch.
batch_of_short(active_vaults, start) ==
  SubSeq(active_vaults, start + 1,
         IF start + BATCH_SIZE <= Len(active_vaults)
         THEN start + BATCH_SIZE - 1 ELSE Len(active_vaults))

\* batch = active_vaults[i:i + BotConfig.BATCH_SIZE]
batch_of(active_vaults, start) ==
  SubSeq(active_vaults, start + 1,
         IF start + BATCH_SIZE <= Len(active_vaults)
         THEN start + BATCH_SIZE ELSE Len(active_vaults))

\* The tasks of the batch at `start` are created; each runs up to its fetch.
create_tasks(w, active_vaults, start) ==
  LET batch == Range(batch_of(active_vaults, start))
  IN  [n \in DOMAIN w |->
         IF n \in batch THEN "fetch" ELSE w[n]]

\* The observations of the scheduler specifications: the start times of the
\* last two cycles, the number of cycles completed, the time the last gather
\* returned, the time the tasks of the current batch were created, the number
\* of stop requests and the number of monitoring_loop tasks that are running.
NoCycles == [prev_start |-> -1, last_start |-> -1, cycles |-> 0, gathered |-> -1,
             created |-> -1, stops |-> 0, loops |-> 1]

\* monitoring_loop has just been started, with k vaults for a k in `counts`,
\* all of them scanned before.
InitScheduler(counts) ==
  /\ now = 0
  /\ settings = DefaultSettings
  /\ \E k \in counts :
       vaults = [n \in Range(SubSeq(VaultOrder, 1, k)) |->
                   [VaultInfo(n) EXCEPT !.first_scan_completed = TRUE]]
  /\ previous_positions = EmptyDict
  /\ last_alerts = EmptyDict
  /\ trade_events = <<>>
  /\ theme_events = <<>>
  /\ is_monitoring = TRUE
  /\ loop = [pc |-> "sleep", wake |-> 0, active_vaults |-> <<>>, start |-> 0, i |-> 0]
  /\ wk = [n \in DOMAIN vaults |-> NoTask]
  /\ disk = <<save_data(vaults, settings)>>
  /\ last_save_time = 0
  /\ restarts = 0
  /\ api = IdleApi
  /\ hist = NoCycles
  /\ lastEval = NoEval

InitCycle == InitScheduler(VaultCounts)

\* What the scheduler leaves alone.
cycleFrame ==
  <<settings, previous_positions, last_alerts, trade_events, theme_events, restarts,
    api, lastEval>>

\* A tick passes.  A sleep ends on time, and a batch takes at most
\* MaxBatchTicks.
CycleTick(horizon) ==
  /\ now < horizon
  /\ loop.pc \in {"sleep", "delay"} => now < loop.wake
  /\ loop.pc = "gather" => now < hist.created + MaxBatchTicks
  /\ now' = now + 1
  /\ UNCHANGED <<vaults, is_monitoring, loop, wk, disk, last_save_time, hist, cycleFrame>>

\* The sleep between two cycles is over: a new cycle starts.  With no active
\* vault the loop sleeps another interval; otherwise it creates the tasks of the
\* first batch and awaits their gather.
CycleStart ==
  LET active_vaults == active_vault_list(vaults)
  IN  /\ loop.pc = "sleep"
      /\ now >= loop.wake
      /\ is_monitoring
      /\ IF active_vaults = <<>>
         THEN /\ loop' = [loop EXCEPT !.wake = now + VAULT_CHECK_INTERVAL \div SecondsPerTick]
              /\ UNCHANGED <<wk, hist>>
         ELSE /\ loop' = [pc |-> "gather", wake |-> 0, active_vaults |-> active_vaults,
                          start |-> 0, i |-> 0]
              /\ wk' = create_tasks([n \in DOMAIN wk |-> NoTask], active_vaults, 0)
              /\ hist' = [hist EXCEPT !.prev_start = hist.last_start,
                                       !.last_start = now, !.created = now]
      /\ UNCHANGED <<now, vaults, is_monitoring, disk, last_save_time, cycleFrame>>

\* The fetch of the task of vault n fails after its retries: mark_vault_failure
\* and the task returns.
TaskFetchFail(n) ==
  LET v1 == mark_vault_failure(vaults, n)
      p == safe_save_ticks([disk |-> disk, last_save_time |-> last_save_time], now, v1,
                           settings)
  IN  /\ n \in DOMAIN wk
      /\ wk[n] = "fetch"
      /\ vaults' = v1
      /\ disk' = p.disk
      /\ last_save_time' = p.last_save_time
      /\ wk' = [wk EXCEPT ![n] = "failed"]
      /\ UNCHANGED <<now, is_monitoring, loop, hist, cycleFrame>>

\* The fetch returns holdings (mark_vault_success).  With outcome "quiet" no
\* change meets a threshold: the snapshot is updated and the task returns.
\* With "alert" a change is inserted into the windows, meets the threshold and
\* the task awaits the sending of the alert.
TaskFetchOk(n, outcome) ==
  LET v1 == mark_vault_success(vaults, n, now)
      p == safe_save_ticks([disk |-> disk, last_save_time |-> last_save_time], now, v1,
                           settings)
  IN  /\ n \in DOMAIN wk
      /\ wk[n] = "fetch"
      /\ vaults' = v1
      /\ disk' = p.disk
      /\ last_save_time' = p.last_save_time
      /\ wk' = [wk EXCEPT ![n] = IF outcome = "alert" THEN "alert" ELSE "done"]
      /\ UNCHANGED <<now, is_monitoring, loop, hist, cycleFrame>>

\* The alert is sent: the rest of the loop has nothing to alert on, the
\* snapshot is updated and the task returns.
TaskAlertSent(n) ==
  /\ n \in DOMAIN wk
  /\ wk[n] = "alert"
  /\ wk' = [wk EXCEPT ![n] = "done"]
  /\ UNCHANGED <<now, vaults, is_monitoring, loop, disk, last_save_time, hist,
                 cycleFrame>>

\* The fetch returns holdings and the processing raises an exception: the
\* except clause of check_vault_changes logs it, calls mark_vault_failure and
\* the task returns.
TaskError(n) ==
  LET v1 == mark_vault_success(vaults, n, now)
      p1 == safe_save_ticks([disk |-> disk, last_save_time |-> last_save_time], now, v1,
                            settings)
      v2 == mark_vault_failure(v1, n)
      p2 == safe_save_ticks(p1, now, v2, settings)
  IN  /\ n \in DOMAIN wk
      /\ wk[n] = "fetch"
      /\ vaults' = v2
      /\ disk' = p2.disk
      /\ last_save_time' = p2.last_save_time
      /\ wk' = [wk EXCEPT ![n] = "errored"]
      /\ UNCHANGED <<now, is_monitoring, loop, hist, cycleFrame>>

\* The mutant of gather_returns that returns with the first task settled.
gather_returns_first(w, batch) == \E n \in Range(batch) : w[n] \in Settled

\* asyncio.gather(*batch_tasks, return_exceptions=True) returns when every task
\* of the batch has returned, raised or been cancelled.
gather_returns(w, batch) == \A n \in Range(batch) : w[n] \in Settled

\* The value of i after `for i, result in enumerate(results)`, which reuses the
\* variable of the batch loop: the index of the last result.
i_after_results(batch) == Len(batch) - 1

\* The mutant of delay_between_batches that tests the start of the batch.
delay_between_batches_start(l) == l.start + BATCH_SIZE < Len(l.active_vaults)

\* if i + BotConfig.BATCH_SIZE < len(active_vaults): await asyncio.sleep(VAULT_DELAY)
delay_between_batches(l) == l.i + BATCH_SIZE < Len(l.active_vaults)

\* The mutant of cycle_sleep that sleeps until one interval after the start of
\* the cycle.
cycle_sleep_scheduled(cycle_start, clock) ==
  IF cycle_start + VAULT_CHECK_INTERVAL \div SecondsPerTick > clock
  THEN cycle_start + VAULT_CHECK_INTERVAL \div SecondsPerTick ELSE clock

\* await asyncio.sleep(BotConfig.VAULT_CHECK_INTERVAL) at the end of a cycle
\* that started at cycle_start: the time the loop wakes up.
cycle_sleep(cycle_start, clock) == clock + VAULT_CHECK_INTERVAL \div SecondsPerTick

\* The batch loop goes on after a batch (and its delay): the next value of the
\* range, if there is one, starts the next batch; otherwise the cycle is over
\* and the loop sleeps.
NextBatch(l, h) ==
  IF l.start + BATCH_SIZE < Len(l.active_vaults)
  THEN /\ loop' = [l EXCEPT !.pc = "gather", !.start = @ + BATCH_SIZE,
                            !.i = l.start + BATCH_SIZE]
       /\ wk' = create_tasks(wk, l.active_vaults, l.start + BATCH_SIZE)
       /\ hist' = [h EXCEPT !.created = now]
  ELSE /\ loop' = [l EXCEPT !.pc = "sleep",
                            !.wake = cycle_sleep(hist.last_start, now)]
       /\ wk' = wk
       /\ hist' = [h EXCEPT !.cycles = @ + 1]

\* The gather of the batch returns: the results are looked through, and the
\* loop sleeps the delay between batches or goes on at once.
Gathered ==
  LET batch == batch_of(loop.active_vaults, loop.start)
      l == [loop EXCEPT !.i = i_after_results(batch)]
      h == [hist EXCEPT !.gathered = now]
  IN  /\ loop.pc = "gather"
      /\ gather_returns(wk, batch)
      /\ IF delay_between_batches(l)
         THEN /\ loop' = [l EXCEPT !.pc = "delay",
                                   !.wake = now + VAULT_DELAY \div SecondsPerTick]
              /\ wk' = wk
              /\ hist' = h
         ELSE NextBatch(l, h)
      /\ UNCHANGED <<now, vaults, is_monitoring, disk, last_save_time, cycleFrame>>

\* The delay between batches is over.
DelayOver ==
  /\ loop.pc = "delay"
  /\ now >= loop.wake
  /\ NextBatch(loop, hist)
  /\ UNCHANGED <<now, vaults, is_monitoring, disk, last_save_time, cycleFrame>>

NextCycle ==
  \/ CycleTick(MaxTicks)
  \/ CycleStart
  \/ \E n \in Range(VaultOrder) : TaskFetchFail(n)
  \/ \E n \in Range(VaultOrder), outcome \in {"quiet", "alert"} :
       TaskFetchOk(n, outcome)
  \/ \E n \in Range(VaultOrder) : TaskAlertSent(n)
  \/ \E n \in Range(VaultOrder) : TaskError(n)
  \/ Gathered
  \/ DelayOver

SpecCycle == InitCycle /\ [][NextCycle]_vars

\* task.cancel() on a check_vault_changes task: CancelledError is raised at the
\* await the task is suspended in and no except clause on its way catches it
\* (it is not an Exception), so the task ends there.
cancel_task(t) ==
  IF t = "fetch" THEN "cancelled" ELSE IF t = "alert" THEN "abandoned" ELSE t

\* stop_monitoring: the flag is cleared and monitoring_task is cancelled and
\* awaited.  The loop is suspended in a sleep or in the gather of a batch;
\* cancelling a gather cancels its tasks, and the loop ends when they have.
stop_monitoring ==
  /\ hist.stops < MaxStops
  /\ is_monitoring
  /\ is_monitoring' = FALSE
  /\ loop' = [loop EXCEPT !.pc = "off"]
  /\ wk' = [n \in DOMAIN wk |-> cancel_task(wk[n])]
  /\ hist' = [hist EXCEPT !.stops = @ + 1, !.loops = @ - 1]
  /\ UNCHANGED <<now, vaults, disk, last_save_time, cycleFrame>>

\* The mutant of may_start that creates a loop whenever asked.
may_start_always(monitoring) == TRUE

\* start_monitoring: if not self.vault_data.is_monitoring
may_start(monitoring) == ~monitoring

\* start_monitoring, as /start calls it when vaults exist: sets the flag and
\* creates the monitoring_loop task, which starts a cycle at once.
start_monitoring ==
  /\ may_start(is_monitoring)
  /\ is_monitoring' = TRUE
  /\ loop' = [loop EXCEPT !.pc = "sleep", !.wake = now]
  /\ hist' = [hist EXCEPT !.loops = @ + 1]
  /\ UNCHANGED <<now, vaults, wk, disk, last_save_time, cycleFrame>>

\* The scheduler with stop and start requests, for vaults that fit into one
\* batch (no delay between batches is ever taken).
NextStop ==
  \/ CycleTick(MaxStopTicks)
  \/ CycleStart
  \/ \E n \in Range(VaultOrder) : TaskFetchFail(n)
  \/ \E n \in Range(VaultOrder), outcome \in {"quiet", "alert"} :
       TaskFetchOk(n, outcome)
  \/ \E n \in Range(VaultOrder) : TaskAlertSent(n)
  \/ \E n \in Range(VaultOrder) : TaskError(n)
  \/ Gathered
  \/ stop_monitoring
  \/ start_monitoring

\* The numbers of vaults a run of SpecStop starts with.
StopVaultCounts == {BATCH_SIZE - 1}

InitStop == InitScheduler(StopVaultCounts)

SpecStop == InitStop /\ [][NextStop]_vars

\* ------------------------------------------------------- health monitor

\* One pass of health_monitor_loop at clock reading `clock`, were it run: every inactive
\* vault with FailureLimit failures whose last success is more than
\* REACTIVATE_AFTER seconds ago is reactivated with a failure count of 0.
health_monitor_pass(v, clock) ==
  [n \in DOMAIN v |->
     IF /\ ~v[n].is_active
        /\ v[n].consecutive_failures >= FailureLimit
        /\ v[n].last_successful_check # <<>>
        /\ (clock - v[n].last_successful_check[1]) * SecondsPerMinute > REACTIVATE_AFTER
     THEN [v[n] EXCEPT !.is_active = TRUE, !.consecutive_failures = 0]
     ELSE v[n]]

\* start_monitoring creates the monitoring_loop task only and no other
\* statement creates a task for health_monitor_loop (health_check_task stays
\* None): no action of the bot applies health_monitor_pass.

\* The holdings of a vault with no position.
Flat == [c \in AllCoins |-> 0]

\* The bot over the time of a cool-off in a quiet environment: the vaults are
\* added in the first minute and hold no position, and each fetch fails or
\* returns the empty holdings within the minute it started in.
NextHealth ==
  \/ loop.pc = "sleep" /\ Tick(MaxTimeHealth)
  \/ now = 1 /\ \E n \in Names : add_vault_command(AddressOf(n), n)
  \/ LoopCycle
  \/ GatherDone
  \/ \E n \in Names : FetchFail(n)
  \/ \E n \in Names : FetchOk(n, Flat, <<>>, 0)

SpecHealth == Init /\ [][NextHealth]_vars

\* ------------------------------------------------- _save_data, _load_data
\* SpecSave follows _save_data file by file.  disk is the record of the three
\* files vault_data.json.tmp (tmp), vault_data.json (live) and
\* vault_data_backup.json (backup); a file is <<>> when it does not exist and
\* otherwise <<[complete, data]>>, complete being false for a file that json.load
\* cannot read.  add_vault and remove_vault change the vaults in memory and call
\* _save_data; each file operation of the save is a step, and each may fail as
\* the operating system lets it; the process may crash at any point and is then
\* started again.  hist holds the number of saves, what _load_data would have
\* returned when the running save began (begin), the data it is saving (saving),
\* whether a save has succeeded (saved), how the last save ended (outcome) and
\* where the last crash hit (crashed).

File(complete, data) == <<[complete |-> complete, data |-> data]>>

NoFiles == [tmp |-> <<>>, live |-> <<>>, backup |-> <<>>]

\* The mutant of load_data that does not fall back on the backup file.
load_data_primary(d) ==
  IF d.live # <<>> /\ d.live[1].complete THEN <<d.live[1].data>> ELSE <<>>

\* _load_data: the primary file if it exists and can be read, else the backup
\* file if it exists and can be read, else nothing (<<>>).
load_data(d) ==
  IF d.live # <<>> /\ d.live[1].complete THEN <<d.live[1].data>>
  ELSE IF d.backup # <<>> /\ d.backup[1].complete THEN <<d.backup[1].data>>
  ELSE <<>>

InitSave ==
  /\ now = 0
  /\ settings = DefaultSettings
  /\ vaults = EmptyDict
  /\ previous_positions = EmptyDict
  /\ last_alerts = EmptyDict
  /\ trade_events = <<>>
  /\ theme_events = <<>>
  /\ is_monitoring = FALSE
  /\ loop = [pc |-> "idle"]
  /\ wk = [n \in Names |-> IdleWorker]
  /\ disk = NoFiles
  /\ last_save_time = 0
  /\ restarts = 0
  /\ api = IdleApi
  /\ hist = [saves |-> 0, begin |-> <<>>, saving |-> <<>>, saved |-> FALSE,
             outcome |-> "none", crashed |-> "no"]
  /\ lastEval = NoEval

saveFrame ==
  <<now, trade_events, theme_events, is_monitoring, wk, last_save_time, api, lastEval>>

\* _save_data is entered with the vaults v in memory.
save_begins(v) ==
  /\ loop.pc = "idle"
  /\ hist.saves < MaxSaves
  /\ vaults' = v
  /\ loop' = [pc |-> "write"]
  /\ hist' = [hist EXCEPT !.saves = @ + 1, !.begin = load_data(disk),
                          !.saving = <<save_data(v, settings)>>,
                          !.outcome = "running"]
  /\ UNCHANGED <<settings, disk, restarts, saveFrame>>

\* add_vault: the vault and its empty snapshot and cooldown maps, then _save_data.
add_vault(address, name) ==
  /\ name \notin DOMAIN vaults
  /\ \A x \in DOMAIN vaults : vaults[x].address # address
  /\ previous_positions' = Put(previous_positions, address, NoPositions)
  /\ last_alerts' = Put(last_alerts, address, EmptyDict)
  /\ save_begins(Put(vaults, name, VaultInfo(address)))

\* remove_vault: the vault and its snapshot and cooldown maps go, then _save_data.
remove_vault(name) ==
  /\ name \in DOMAIN vaults
  /\ previous_positions' =
       [a \in DOMAIN previous_positions \ {vaults[name].address} |-> previous_positions[a]]
  /\ last_alerts' =
       [a \in DOMAIN last_alerts \ {vaults[name].address} |-> last_alerts[a]]
  /\ save_begins([x \in DOMAIN vaults \ {name} |-> vaults[x]])

\* The except branch of _save_data: if the backup file exists it is renamed
\* over the live file; a failure of that rename is swallowed (restored false).
save_failed(d, restored) ==
  IF d.backup # <<>> /\ restored
  THEN [d EXCEPT !.live = d.backup, !.backup = <<>>]
  ELSE d

\* json.dump has written the temp file.
TempWritten ==
  /\ loop.pc = "write"
  /\ disk' = [disk EXCEPT !.tmp = File(TRUE, save_data(vaults, settings))]
  /\ loop' = [pc |-> "backup"]
  /\ UNCHANGED <<settings, vaults, previous_positions, last_alerts, restarts, hist,
                 saveFrame>>

\* open or json.dump raises (disk full, no permission): the temp file is left
\* as it was or torn, and the except branch runs.
TempWriteFails(torn, restored) ==
  LET d == IF torn THEN [disk EXCEPT !.tmp = File(FALSE, save_data(vaults, settings))]
           ELSE disk
  IN  /\ loop.pc = "write"
      /\ disk' = save_failed(d, restored)
      /\ loop' = [pc |-> "idle"]
      /\ hist' = [hist EXCEPT !.outcome = "failed"]
      /\ UNCHANGED <<settings, vaults, previous_positions, last_alerts, restarts,
                     saveFrame>>

\* The live file, if there is one, is renamed to the backup file; if the rename
\* fails (renamed false) the save goes on.
LiveBackedUp(renamed) ==
  /\ loop.pc = "backup"
  /\ disk' = IF disk.live # <<>> /\ renamed
             THEN [disk EXCEPT !.backup = disk.live, !.live = <<>>]
             ELSE disk
  /\ loop' = [pc |-> "rename"]
  /\ UNCHANGED <<settings, vaults, previous_positions, last_alerts, restarts, hist,
                 saveFrame>>

\* os.rename(temp_file, VAULT_DATA_FILE): the save has succeeded.
TempRenamed ==
  /\ loop.pc = "rename"
  /\ disk' = [disk EXCEPT !.live = disk.tmp, !.tmp = <<>>]
  /\ loop' = [pc |-> "idle"]
  /\ hist' = [hist EXCEPT !.outcome = "ok", !.saved = TRUE]
  /\ UNCHANGED <<settings, vaults, previous_positions, last_alerts, restarts,
                 saveFrame>>

\* os.rename(temp_file, VAULT_DATA_FILE) raises: the except branch runs.
TempRenameFails(restored) ==
  /\ loop.pc = "rename"
  /\ disk' = save_failed(disk, restored)
  /\ loop' = [pc |-> "idle"]
  /\ hist' = [hist EXCEPT !.outcome = "failed"]
  /\ UNCHANGED <<settings, vaults, previous_positions, last_alerts, restarts,
                 saveFrame>>

\* The process dies and is started again: a temp file being written may be left
\* torn, and __init__ sets the defaults and calls _load_data.
CrashAndLoad(torn) ==
  LET d == IF loop.pc = "write" /\ torn
           THEN [disk EXCEPT !.tmp = File(FALSE, save_data(vaults, settings))]
           ELSE disk
      data == load_data(d)
      loaded == IF data = <<>> THEN EmptyDict ELSE data[1].vaults
      held == {loaded[n].address : n \in DOMAIN loaded}
  IN  /\ restarts < MaxRestarts
      /\ torn => loop.pc = "write"
      /\ restarts' = restarts + 1
      /\ disk' = d
      /\ vaults' = loaded
      /\ settings' = IF data = <<>> THEN DefaultSettings ELSE data[1].settings
      /\ previous_positions' = [a \in held |-> NoPositions]
      /\ last_alerts' = [a \in held |-> EmptyDict]
      /\ loop' = [pc |-> "idle"]
      /\ hist' = [hist EXCEPT !.crashed = loop.pc, !.outcome = "crashed"]
      /\ UNCHANGED saveFrame

NextSave ==
  \/ \E n \in Names : add_vault(AddressOf(n), n)
  \/ \E n \in Names : remove_vault(n)
  \/ TempWritten
  \/ \E torn, restored \in BOOLEAN : TempWriteFails(torn, restored)
  \/ \E renamed \in BOOLEAN : LiveBackedUp(renamed)
  \/ TempRenamed
  \/ \E restored \in BOOLEAN : TempRenameFails(restored)
  \/ \E torn \in BOOLEAN : CrashAndLoad(torn)

SpecSave == InitSave /\ [][NextSave]_vars

\* ------------------------------------------------------ add_vault checks
\* SpecAdd calls add_vault with every kind of input.  An address string is the
\* record of its hex digits (hex), whether it is written with upper-case
\* digits (upper) and its form: "ok" (0x and 40 hex digits), "nonhex" (0x and
\* 40 characters, not all of them hex digits) or "bad" (anything else).  The
\* run is one of ThreadSafeVaultData (bot.py) or VaultDataManager
\* (coinglass_bot.py), named in loop.class.  hist holds the number of calls
\* and the arguments and the result of the last one.

AddressStrings == [hex : {"a", "b"}, upper : BOOLEAN, form : {"ok", "nonhex", "bad"}]

\* str.lower()
lower(address) == [address EXCEPT !.upper = FALSE]

\* HYPERLIQUID_ADDRESS_PATTERN.match(address): ^0x[a-fA-F0-9]{40}$
address_pattern_match(address) == address.form = "ok"

\* address.startswith('0x') and len(address) == 42
address_prefix_and_length(address) == address.form \in {"ok", "nonhex"}

\* The state add_vault reads and writes.
vault_store ==
  [vaults |-> vaults, previous_positions |-> previous_positions,
   last_alerts |-> last_alerts, disk |-> disk, last_save_time |-> last_save_time]

\* ThreadSafeVaultData.add_vault: the result (ok) and the state after the call.
bot_add_vault(s, address, name) ==
  IF ~address_pattern_match(address) THEN [ok |-> FALSE, s |-> s]
  ELSE IF name \in DOMAIN s.vaults THEN [ok |-> FALSE, s |-> s]
  ELSE IF \E x \in DOMAIN s.vaults : lower(s.vaults[x].address) = lower(address)
  THEN [ok |-> FALSE, s |-> s]
  ELSE LET v == Put(s.vaults, name, VaultInfo(address))
       IN  [ok |-> TRUE,
            s |-> [s EXCEPT !.vaults = v,
                            !.previous_positions = Put(@, address, NoPositions),
                            !.last_alerts = Put(@, address, EmptyDict),
                            !.disk = <<save_data(v, settings)>>]]

\* VaultDataManager.add_vault: the result (ok) and the state after the call.
coinglass_add_vault(s, address, name, clock) ==
  IF ~address_prefix_and_length(address) THEN [ok |-> FALSE, s |-> s]
  ELSE IF \E x \in DOMAIN s.vaults : lower(s.vaults[x].address) = lower(address)
  THEN [ok |-> FALSE, s |-> s]
  ELSE LET v == Put(s.vaults, name, VaultInfo(lower(address)))
           p == safe_save([disk |-> s.disk, last_save_time |-> s.last_save_time],
                          clock, v, settings)
       IN  [ok |-> TRUE,
            s |-> [s EXCEPT !.vaults = v,
                            !.previous_positions = Put(@, lower(address), NoPositions),
                            !.disk = p.disk,
                            !.last_save_time = p.last_save_time]]

InitAdd ==
  /\ now = 1
  /\ settings = DefaultSettings
  /\ vaults = EmptyDict
  /\ previous_positions = EmptyDict
  /\ last_alerts = EmptyDict
  /\ trade_events = <<>>
  /\ theme_events = <<>>
  /\ is_monitoring = FALSE
  /\ loop \in {[pc |-> "idle", class |-> c] :
                 c \in {"ThreadSafeVaultData", "VaultDataManager"}}
  /\ wk = [n \in Names |-> IdleWorker]
  /\ disk = <<>>
  /\ last_save_time = 0
  /\ restarts = 0
  /\ api = IdleApi
  /\ hist = [calls |-> 0, address |-> [hex |-> "a", upper |-> FALSE, form |-> "bad"],
             name |-> "A", ok |-> FALSE]
  /\ lastEval = NoEval

\* add_vault(address, name) is called and returns r.
add_vault_returns(r, address, name) ==
  /\ hist.calls < MaxAdds
  /\ hist' = [calls |-> hist.calls + 1, address |-> address, name |-> name, ok |-> r.ok]
  /\ vaults' = r.s.vaults
  /\ previous_positions' = r.s.previous_positions
  /\ last_alerts' = r.s.last_alerts
  /\ disk' = r.s.disk
  /\ last_save_time' = r.s.last_save_time
  /\ UNCHANGED <<now, settings, trade_events, theme_events, is_monitoring, loop, wk,
                 restarts, api, lastEval>>

ThreadSafeVaultData_add_vault(address, name) ==
  /\ loop.class = "ThreadSafeVaultData"
  /\ add_vault_returns(bot_add_vault(vault_store, address, name), address, name)

VaultDataManager_add_vault(address, name) ==
  /\ loop.class = "VaultDataManager"
  /\ add_vault_returns(coinglass_add_vault(vault_store, address, name, now), address, name)

NextAdd ==
  \/ \E address \in AddressStrings, name \in Names :
       ThreadSafeVaultData_add_vault(address, name)
  \/ \E address \in AddressStrings, name \in Names :
       VaultDataManager_add_vault(address, name)

SpecAdd == InitAdd /\ [][NextAdd]_vars

\* ------------------------------------------- ConfluenceEngineV2 monitoring
\* SpecEngine: start_monitoring and stop_monitoring of ConfluenceEngineV2 (and
\* of ConfluenceEngine, which has the same two methods and the same loop
\* head) are called in any order while the tasks of
\* monitor_address_continuously run.  is_monitoring is monitoring_active, wk
\* is the sequence of the tasks created so far, each with its address, its
\* position (pc: "while" at the loop condition, "sleep" in asyncio.sleep,
\* "returned") and the number of the start in which it last polled; hist
\* counts the calls and the starts that created tasks.

\* get_tracked_addresses: the active rows of tracked_addresses.
TrackedAddresses == <<"0xa", "0xb">>

InitEngine ==
  /\ now = 0
  /\ settings = DefaultSettings
  /\ vaults = EmptyDict
  /\ previous_positions = EmptyDict
  /\ last_alerts = EmptyDict
  /\ trade_events = <<>>
  /\ theme_events = <<>>
  /\ is_monitoring = FALSE
  /\ loop = [pc |-> "off", wake |-> 0]
  /\ wk = <<>>
  /\ disk = <<>>
  /\ last_save_time = 0
  /\ restarts = 0
  /\ api = IdleApi
  /\ hist = [calls |-> 0, starts |-> 0]
  /\ lastEval = NoEval

engineFrame ==
  UNCHANGED <<now, settings, vaults, previous_positions, last_alerts, trade_events,
              theme_events, loop, disk, last_save_time, restarts, api, lastEval>>

\* start_monitoring up to its await of gather: returns if monitoring_active is
\* set, else sets it and creates one task per tracked address.
engine_start_monitoring ==
  /\ hist.calls < MaxEngineCalls
  /\ IF is_monitoring
     THEN /\ hist' = [hist EXCEPT !.calls = @ + 1]
          /\ UNCHANGED <<is_monitoring, wk>>
     ELSE /\ is_monitoring' = TRUE
          /\ wk' = wk \o [i \in 1..Len(TrackedAddresses) |->
                            [address |-> TrackedAddresses[i], pc |-> "while", polled |-> 0]]
          /\ hist' = [calls |-> hist.calls + 1, starts |-> hist.starts + 1]
  /\ engineFrame

\* stop_monitoring: clears the flag and nothing else.
engine_stop_monitoring ==
  /\ hist.calls < MaxEngineCalls
  /\ is_monitoring' = FALSE
  /\ hist' = [hist EXCEPT !.calls = @ + 1]
  /\ UNCHANGED wk
  /\ engineFrame

\* Task t of monitor_address_continuously is at `while self.monitoring_active`:
\* it returns if the flag is clear, else it polls its address and goes to
\* sleep.
monitor_address_continuously(t) ==
  /\ t \in DOMAIN wk
  /\ wk[t].pc = "while"
  /\ wk' = IF is_monitoring
           THEN [wk EXCEPT ![t].pc = "sleep", ![t].polled = hist.starts]
           ELSE [wk EXCEPT ![t].pc = "returned"]
  /\ UNCHANGED <<is_monitoring, hist>>
  /\ engineFrame

\* asyncio.sleep of task t returns.
sleep_returns(t) ==
  /\ t \in DOMAIN wk
  /\ wk[t].pc = "sleep"
  /\ wk' = [wk EXCEPT ![t].pc = "while"]
  /\ UNCHANGED <<is_monitoring, hist>>
  /\ engineFrame

NextEngine ==
  \/ engine_start_monitoring
  \/ engine_stop_monitoring
  \/ \E t \in 1..(MaxEngineCalls * Len(TrackedAddresses)) : monitor_address_continuously(t)
  \/ \E t \in 1..(MaxEngineCalls * Len(TrackedAddresses)) : sleep_returns(t)

SpecEngine == InitEngine /\ [][NextEngine]_vars

\* ------------------------------------------------ ConfluenceEngineV2 fills
\* SpecFills: one address gets fills at the API while its loop polls.  A fill
\* is [id, hash]: id numbers the fills in the order they happen, hash is the
\* value of fill.get('hash', ''), a number of its own for a fill that carries a
\* hash and 0 for the empty string of one that carries none.  api.fills is the
\* list user_fills returns, newest first; loop.last_seen_fills is the entry of
\* the address in last_seen_fills (0: none, or the empty string); hist counts
\* for each fill how often it was handed to parse_fill_to_trade, and the polls.

\* The loop of fetch_user_fills over fills: the fills up to the first one whose
\* hash is empty or equals last_seen.
RECURSIVE new_fills_of(_, _)
new_fills_of(fills, last_seen) ==
  IF fills = <<>> THEN <<>>
  ELSE LET fill_hash == Head(fills).hash
       IN  IF fill_hash # 0 /\ fill_hash # last_seen
           THEN <<Head(fills)>> \o new_fills_of(Tail(fills), last_seen)
           ELSE <<>>

\* fetch_user_fills: the new fills and the entry of last_seen_fills afterwards.
fetch_user_fills(fills, last_seen) ==
  IF fills = <<>> THEN [new_fills |-> <<>>, last_seen |-> last_seen]
  ELSE [new_fills |-> new_fills_of(fills, last_seen), last_seen |-> fills[1].hash]

NoPoll == [ran |-> FALSE, fills |-> <<>>, last_seen |-> 0, new_fills |-> <<>>]

InitFills ==
  /\ now = 0
  /\ settings = DefaultSettings
  /\ vaults = EmptyDict
  /\ previous_positions = EmptyDict
  /\ last_alerts = EmptyDict
  /\ trade_events = <<>>
  /\ theme_events = <<>>
  /\ is_monitoring = TRUE
  /\ loop = [pc |-> "sleep", last_seen_fills |-> 0]
  /\ wk = EmptyDict
  /\ disk = <<>>
  /\ last_save_time = 0
  /\ restarts = 0
  /\ api = [fills |-> <<>>]
  /\ hist = [parsed |-> [i \in 1..MaxFills |-> 0], polls |-> 0]
  /\ lastEval = NoPoll

fillsFrame ==
  UNCHANGED <<now, settings, vaults, previous_positions, last_alerts, trade_events,
              theme_events, is_monitoring, wk, disk, last_save_time, restarts>>

\* The address trades: a fill is put at the head of the list, with or without
\* a hash.
fill_arrives(hashed) ==
  LET id == Len(api.fills) + 1
  IN  /\ id <= MaxFills
      /\ api' = [fills |-> <<[id |-> id, hash |-> IF hashed THEN id ELSE 0]>> \o api.fills]
      /\ UNCHANGED <<loop, hist, lastEval>>
      /\ fillsFrame

\* One pass of the loop of monitor_address_continuously: fetch_user_fills, then
\* every new fill goes to parse_fill_to_trade and the Trade to
\* check_confluence.
poll_address ==
  LET r == fetch_user_fills(api.fills, loop.last_seen_fills)
      ids == {r.new_fills[i].id : i \in 1..Len(r.new_fills)}
  IN  /\ hist.polls < MaxPolls
      /\ loop' = [loop EXCEPT !.last_seen_fills = r.last_seen]
      /\ hist' = [parsed |-> [i \in 1..MaxFills |->
                                IF i \in ids THEN hist.parsed[i] + 1 ELSE hist.parsed[i]],
                  polls |-> hist.polls + 1]
      /\ lastEval' = [ran |-> TRUE, fills |-> api.fills,
                      last_seen |-> loop.last_seen_fills, new_fills |-> r.new_fills]
      /\ UNCHANGED api
      /\ fillsFrame

NextFills ==
  \/ \E hashed \in BOOLEAN : fill_arrives(hashed)
  \/ poll_address

SpecFills == InitFills /\ [][NextFills]_vars

\* ------------------------------------------------- BudgetCoinGlassClient
\* SpecBudget: get_hyperliquid_whale_positions is called again and again, one
\* call at a time, and every HTTP request ends in one of the ways
\* _make_request tells apart.  now is in seconds.  loop holds the client's
\* requests_this_minute and last_minute_reset, wk the call in progress (pc
\* "idle" or "request", and attempt of _make_request's loop), hist the number
\* of HTTP requests sent in the 60 seconds from last_minute_reset on (sent)
\* and how the last call ended.

\* BudgetBotConfig.PLANS['hobbyist']['requests_per_minute']
requests_per_minute == 30
\* BudgetBotConfig.MAX_RETRIES and RETRY_DELAY
BUDGET_MAX_RETRIES == 3
BUDGET_RETRY_DELAY == 2
\* The length of the counter's minute and the sleep after a 429, in seconds.
COUNTER_MINUTE_SECONDS == 60
RATE_LIMITED_WAIT == 60

\* How a session.get can end: 200 with success true or false in the body, 429,
\* another status, or an exception (timeout, connection error).
HttpOutcomes == {"200_success", "200_no_success", "429", "other_status", "exception"}

InitBudget ==
  /\ now = 0
  /\ settings = DefaultSettings
  /\ vaults = EmptyDict
  /\ previous_positions = EmptyDict
  /\ last_alerts = EmptyDict
  /\ trade_events = <<>>
  /\ theme_events = <<>>
  /\ is_monitoring = TRUE
  /\ loop = [requests_this_minute |-> 0, last_minute_reset |-> 0]
  /\ wk = [pc |-> "idle", attempt |-> 0]
  /\ disk = <<>>
  /\ last_save_time = 0
  /\ restarts = 0
  /\ api = IdleApi
  /\ hist = [sent |-> 0, last |-> "none"]
  /\ lastEval = NoEval

budgetFrame ==
  UNCHANGED <<settings, vaults, previous_positions, last_alerts, trade_events,
              theme_events, is_monitoring, disk, last_save_time, restarts, api, lastEval>>

\* Time passes between two calls.
BudgetTick ==
  /\ wk.pc = "idle"
  /\ now + TickSeconds <= MaxBudgetTime
  /\ now' = now + TickSeconds
  /\ UNCHANGED <<loop, wk, hist>>
  /\ budgetFrame

\* _reset_minute_counter: the client after the call at time clock.
reset_minute_counter(client, clock) ==
  IF clock - client.last_minute_reset >= COUNTER_MINUTE_SECONDS
  THEN [requests_this_minute |-> 0, last_minute_reset |-> clock]
  ELSE client

\* _check_rate_limit, on the client after _reset_minute_counter.
check_rate_limit(client) == client.requests_this_minute < requests_per_minute

\* get_hyperliquid_whale_positions up to its first request: the counter is
\* reset if its minute is over, and the call returns None if the limit is
\* reached, else it enters _make_request.
whale_positions_called ==
  LET client == reset_minute_counter(loop, now)
  IN  /\ wk.pc = "idle"
      /\ loop' = client
      /\ IF check_rate_limit(client)
         THEN /\ wk' = [pc |-> "request", attempt |-> 0]
              /\ hist' = [hist EXCEPT !.sent = IF client = loop THEN @ ELSE 0]
         ELSE /\ wk' = wk
              /\ hist' = [sent |-> IF client = loop THEN hist.sent ELSE 0,
                          last |-> "refused"]
      /\ UNCHANGED now
      /\ budgetFrame

\* One pass of the loop of _make_request: the request is sent and ends with
\* outcome; the call returns on a 200 (counting the request if the body says
\* success) and after the last attempt, and else sleeps and tries again.
request_ends(outcome) ==
  LET counted == IF now < loop.last_minute_reset + COUNTER_MINUTE_SECONDS
                 THEN hist.sent + 1 ELSE hist.sent
      last_attempt == wk.attempt = BUDGET_MAX_RETRIES - 1
      wait == IF outcome = "429" THEN RATE_LIMITED_WAIT
              ELSE IF outcome = "exception" /\ ~last_attempt
                   THEN BUDGET_RETRY_DELAY * (wk.attempt + 1)
                   ELSE 0
  IN  /\ wk.pc = "request"
      /\ hist.sent < requests_per_minute + BUDGET_MAX_RETRIES
      /\ now + wait <= MaxBudgetTime + RATE_LIMITED_WAIT
      /\ now' = now + wait
      /\ IF outcome = "200_success"
         THEN /\ loop' = [loop EXCEPT !.requests_this_minute = @ + 1]
              /\ wk' = [pc |-> "idle", attempt |-> 0]
              /\ hist' = [sent |-> counted, last |-> "data"]
         ELSE IF outcome = "200_no_success" \/ last_attempt
         THEN /\ loop' = loop
              /\ wk' = [pc |-> "idle", attempt |-> 0]
              /\ hist' = [sent |-> counted, last |-> "None"]
         ELSE /\ loop' = loop
              /\ wk' = [wk EXCEPT !.attempt = @ + 1]
              /\ hist' = [hist EXCEPT !.sent = counted]
      /\ budgetFrame

NextBudget ==
  \/ BudgetTick
  \/ whale_positions_called
  \/ \E outcome \in HttpOutcomes : request_ends(outcome)

SpecBudget == InitBudget /\ [][NextBudget]_vars

\* ------------------------------------------------- properties, detector

\* The events evaluated before the last one.
EarlierEvents == hist.inserted \ {lastEval.ev}
\* The vaults that ever had an event on the given coin, or theme.
VaultsOnCoin(coin) == {e.vault_name : e \in {x \in hist.inserted : x.coin = coin}}
VaultsOnTheme(theme) ==
  {e.vault_name : e \in {x \in hist.inserted : get_token_category(x.coin) = theme}}

\* C1: whenever the detector returns an alert group (instrument or theme), the
\* group holds events of at least threshold distinct vaults and holds the
\* triggering event exactly once.
C1_AlertGroupMeetsThreshold ==
  /\ lastEval.alert =>
       /\ Cardinality(UniqueVaults(lastEval.group)) >= settings.confluence_threshold
       /\ Count(lastEval.group, lastEval.ev) = 1
  /\ lastEval.theme_alert =>
       /\ Cardinality(UniqueVaults(lastEval.theme_group)) >= settings.theme_threshold
       /\ Count(lastEval.theme_group, ThemeEvent(lastEval.theme, lastEval.ev)) = 1

\* C2: with a threshold k >= 2, an alert for a coin (a theme) is returned only
\* if at least k distinct vaults ever had an event on that coin (theme): events
\* of fewer vaults never alert, however many they are.
C2_RepeatsDoNotInflate ==
  /\ (lastEval.alert /\ settings.confluence_threshold >= 2) =>
       Cardinality(VaultsOnCoin(lastEval.ev.coin)) >= settings.confluence_threshold
  /\ (lastEval.theme_alert /\ settings.theme_threshold >= 2) =>
       Cardinality(VaultsOnTheme(lastEval.theme)) >= settings.theme_threshold

\* A vault repeats a coin inside the window under threshold 2, and no alert is
\* returned.
C2_Witness ==
  /\ lastEval.ran
  /\ settings.confluence_threshold = 2
  /\ lastEval.ev.vault_name \in UniqueVaults(lastEval.existing)
  /\ VaultsOnCoin(lastEval.ev.coin) = {lastEval.ev.vault_name}
  /\ ~lastEval.alert

\* The last evaluation is B's event of time tb, the second event of the run,
\* after A's event of time 0 on the same coin.
ScenarioAB(tb) ==
  /\ lastEval.ran
  /\ settings.confluence_threshold = 2
  /\ settings.confluence_window_minutes = 5
  /\ Cardinality(hist.inserted) = 2
  /\ lastEval.ev.vault_name = "B"
  /\ lastEval.ev.timestamp = tb
  /\ \E a \in EarlierEvents :
       a.vault_name = "A" /\ a.timestamp = 0 /\ a.coin = lastEval.ev.coin

\* C8: threshold 2, window 5 minutes: A's event at t=0 returns no alert, and B's
\* event on the same coin evaluated at t=2 returns a group of exactly {A, B}.
C8_ScenarioInsideWindow ==
  /\ ( /\ lastEval.ran
       /\ settings.confluence_threshold = 2
       /\ settings.confluence_window_minutes = 5
       /\ hist.inserted = {lastEval.ev}
       /\ lastEval.ev.vault_name = "A"
       /\ lastEval.ev.timestamp = 0 ) => ~lastEval.alert
  /\ ScenarioAB(2) => (lastEval.alert /\ UniqueVaults(lastEval.group) = {"A", "B"})

C8_Witness == ScenarioAB(2) /\ lastEval.alert

\* C9: no event as old as the window or older is counted or put in an alert
\* group; threshold 2, window 5 minutes: A's event at t=0 and B's event on the
\* same coin at t=6 give no alert.
C9_ExpiredNotCounted ==
  /\ lastEval.ran =>
       \A e \in Range(lastEval.existing) \cup Range(lastEval.group) :
         lastEval.ev.timestamp - e.timestamp < settings.confluence_window_minutes
  /\ ScenarioAB(6) => ~lastEval.alert

C9_Witness == ScenarioAB(6) /\ ~lastEval.alert /\ lastEval.existing = <<>>

\* C10: a windowed query at time q returns a stored event of time T exactly if
\* q < T + duration, for the instrument and the theme window; after a prune at
\* clock c every stored event has a time > c - duration.
C10_WindowBoundary ==
  lastEval.ran =>
    /\ \A e \in EarlierEvents :
         e.coin = lastEval.ev.coin =>
           (e \in Range(lastEval.existing) <=>
              lastEval.ev.timestamp < e.timestamp + settings.confluence_window_minutes)
    /\ \A e \in EarlierEvents :
         (lastEval.theme # None /\ get_token_category(e.coin) = lastEval.theme) =>
           (ThemeEvent(lastEval.theme, e) \in Range(lastEval.theme_existing) <=>
              lastEval.ev.timestamp < e.timestamp + settings.theme_window_minutes)
    /\ \A e \in Range(trade_events) :
         e.timestamp > lastEval.clock - settings.confluence_window_minutes
    /\ lastEval.theme # None =>
         \A e \in Range(theme_events) :
           e.timestamp > lastEval.clock - settings.theme_window_minutes

\* A query runs exactly one window length after an event of its coin, and one
\* runs a minute earlier.
C10_Witness ==
  /\ lastEval.ran
  /\ \E e \in EarlierEvents :
       /\ e.coin = lastEval.ev.coin
       /\ lastEval.ev.timestamp = e.timestamp + settings.confluence_window_minutes
       /\ e \notin Range(lastEval.existing)
  /\ \E e \in EarlierEvents :
       /\ e.coin = lastEval.ev.coin
       /\ lastEval.ev.timestamp = e.timestamp + settings.confluence_window_minutes - 1
       /\ e \in Range(lastEval.existing)

\* ------------------------------------------------- properties, pipeline

\* The events of vault n on coin c in a window.
EventsOf(events, n, c) == {e \in Range(events) : e.vault_name = n /\ e.coin = c}

C4_FirstPollAfterRestartIsBaseline ==
  [][\A n \in Names :
       (restarts > 0 /\ ~hist.sinceRestart[n] /\ hist'.sinceRestart[n]) =>
         /\ trade_events' = trade_events
         /\ theme_events' = theme_events
         /\ wk'[n].pc = "idle"]_vars

\* C5: within one run of the process, a change event of vault n on a coin
\* triggers no confluence alert before cooldown_minutes have passed since an
\* alert with n in its group fired for the coin, under every interleaving of
\* the tasks of a batch.
C5_NoSecondAlertWithinCooldown ==
  [][\A n \in Names :
       (wk'[n].pc = "confluence_alert" /\ wk'[n].ev # wk[n].ev) =>
         LET k == <<n, wk'[n].ev.coin>>
         IN  k \in DOMAIN hist.alerted =>
               wk'[n].ev.timestamp >= hist.alerted[k] + settings.cooldown_minutes]_vars

C7_ChangeOnCooldownDropped ==
  [][\A n \in Names :
       /\ \A c \in wk'[n].cooled \ wk[n].cooled :
            /\ EventsOf(trade_events', n, c) \subseteq EventsOf(trade_events, n, c)
            /\ EventsOf(theme_events', n, c) \subseteq EventsOf(theme_events, n, c)
       /\ (wk'[n].cooled # {} /\ wk[n].pc # "idle" /\ wk'[n].pc = "idle") =>
            previous_positions'[AddressOf(n)] = wk'[n].cur]_vars

\* A poll has ended in which a coin changed while on cooldown: the snapshot is
\* the fetched holdings and differs from the last event of the pair.
C7_Witness ==
  \E n \in DOMAIN vaults : \E c \in wk[n].cooled :
    /\ wk[n].pc = "idle"
    /\ previous_positions[AddressOf(n)] = wk[n].cur
    /\ EventsOf(trade_events, n, c) # {}
    /\ \A e \in EventsOf(trade_events, n, c) : e.timestamp < now

\* ------------------------------------------------- properties, themes

\* C11: with theme threshold 2, when a vault's change event on a coin of a
\* theme follows, within the theme window, an event of another vault on another
\* coin of the same theme, the evaluation yields a theme alert whose group holds
\* both vaults, whether or not an instrument alert fires.
C11_ThemeAlertAcrossInstruments ==
  (lastEval.ran /\ lastEval.theme # None /\ settings.theme_threshold = 2) =>
    \A e \in EarlierEvents :
      (/\ e.vault_name # lastEval.ev.vault_name
       /\ e.coin # lastEval.ev.coin
       /\ get_token_category(e.coin) = lastEval.theme
       /\ e.timestamp > lastEval.ev.timestamp - settings.theme_window_minutes) =>
        /\ lastEval.theme_alert
        /\ {e.vault_name, lastEval.ev.vault_name} \subseteq UniqueVaults(lastEval.theme_group)

\* The coins of the model that TokenCategorizer.categories lists under no theme.
Uncategorised == {"HYPE"}

\* C12: the evaluation of a change event on a coin without a theme builds no
\* ThemeEvent, leaves the theme window as it is and yields no theme alert.
C12_UnthemedCoinNoThemeEvent ==
  [][(hist'.inserted # hist.inserted /\ lastEval'.ev.coin \in Uncategorised) =>
       /\ theme_events' = theme_events
       /\ \A i \in 1..Len(theme_events') : theme_events'[i].coin # lastEval'.ev.coin
       /\ lastEval'.theme = None
       /\ ~lastEval'.theme_alert
       /\ lastEval'.theme_group = <<>>]_vars

\* A change event on a coin without a theme was evaluated while the theme
\* window held an event of another vault.
C12_Witness ==
  /\ lastEval.ran
  /\ lastEval.ev.coin \in Uncategorised
  /\ \E i \in 1..Len(theme_events) :
       /\ theme_events[i].vault_name # lastEval.ev.vault_name
       /\ theme_events[i].timestamp > lastEval.clock - settings.theme_window_minutes

\* ------------------------------------------------- properties, differ

\* The largest size difference of a coin between the two snapshots of the last
\* diff is at most d.
DiffersAtMost(d) ==
  \A c \in DiffCoins :
    Abs(size_of(lastEval.current, c) - size_of(lastEval.previous, c)) <= d

\* C13: a diff of two snapshots in which no coin's size differs by more than
\* the noise threshold builds no event, and every event built has a size change
\* above it.  The threshold of bot.py is 0 (any change counts), that of
\* coinglass_bot.py is MinChangeTenths.
C13_NoEventBelowNoiseThreshold ==
  lastEval.ran =>
    /\ DiffersAtMost(0) => lastEval.events = <<>>
    /\ \A i \in 1..Len(lastEval.events) : size_change(lastEval.events[i]) > 0
    /\ DiffersAtMost(MinChangeTenths) => lastEval.coinglass_events = <<>>
    /\ \A i \in 1..Len(lastEval.coinglass_events) :
         size_change(lastEval.coinglass_events[i]) > MinChangeTenths

\* A diff in which a coin's size moved by exactly the threshold of
\* coinglass_bot.py and no coin's by more, and one of two equal snapshots that
\* hold a position.
C13_Witness ==
  /\ lastEval.ran
  /\ DiffersAtMost(MinChangeTenths)
  /\ lastEval.coinglass_events = <<>>
  /\ \/ /\ ~DiffersAtMost(0)
        /\ \E c \in DOMAIN lastEval.current : c \in DOMAIN lastEval.previous
     \/ /\ DiffersAtMost(0)
        /\ lastEval.current # EmptyDict
        /\ lastEval.events = <<>>

\* The positions of the events of the last diff that are on coin c.
EventsOn(c) == {i \in 1..Len(lastEval.events) : lastEval.events[i].coin = c}

\* C14: the diff of bot.py builds exactly one event, a CLOSE with new size 0,
\* for a coin of the previous snapshot that the current one lacks, exactly one
\* event, an OPEN with old size 0, for a coin of the current snapshot that the
\* previous one lacks, and none for a coin in neither.
C14_UnionWithZeroDefault ==
  lastEval.ran =>
    \A c \in DiffCoins :
      LET inPrevious == c \in DOMAIN lastEval.previous
          inCurrent == c \in DOMAIN lastEval.current
      IN  /\ (inPrevious /\ ~inCurrent) =>
               /\ Cardinality(EventsOn(c)) = 1
               /\ \A i \in EventsOn(c) :
                    /\ lastEval.events[i].new_size = 0
                    /\ lastEval.events[i].old_size = lastEval.previous[c]
                    /\ trade_type(lastEval.events[i]) = "CLOSE"
          /\ (~inPrevious /\ inCurrent) =>
               /\ Cardinality(EventsOn(c)) = 1
               /\ \A i \in EventsOn(c) :
                    /\ lastEval.events[i].old_size = 0
                    /\ lastEval.events[i].new_size = lastEval.current[c]
                    /\ trade_type(lastEval.events[i]) = "OPEN"
          /\ (~inPrevious /\ ~inCurrent) => EventsOn(c) = {}

\* One diff saw a full close of one coin and a fresh open of another.
C14_Witness ==
  /\ lastEval.ran
  /\ \E c, d \in DiffCoins :
       /\ c \in DOMAIN lastEval.previous /\ c \notin DOMAIN lastEval.current
       /\ d \notin DOMAIN lastEval.previous /\ d \in DOMAIN lastEval.current
       /\ Len(lastEval.events) = 2

\* C15: a coin whose entry in the fetched holdings cannot be parsed yields no
\* event in the diff, also when the previous snapshot holds a position of it,
\* and every other coin yields an event exactly if its size changed.
C15_MalformedSymbolSkipped ==
  lastEval.ran =>
    \A c \in DiffCoins :
      IF lastEval.raw[c].kind = "malformed"
      THEN EventsOn(c) = {}
      ELSE (EventsOn(c) # {}) <=>
             (size_of(lastEval.current, c) # size_of(lastEval.previous, c))

\* --------------------------------------------------- properties, health

\* C16 (Spec): in every state of a run, a configured vault is inactive exactly
\* when its last FailureLimit fetches in a row failed, and an inactive vault has
\* a consecutive-failure count of at least FailureLimit.
C16_InactiveIffThreeFailures ==
  \A n \in DOMAIN vaults :
    /\ ~vaults[n].is_active <=> hist.failRun[n] >= FailureLimit
    /\ ~vaults[n].is_active => vaults[n].consecutive_failures >= FailureLimit

\* A vault deactivated by its third failure in a row, next to a vault that is
\* still active after two.
C16_Witness ==
  \E n, o \in DOMAIN vaults :
    /\ ~vaults[n].is_active
    /\ hist.failRun[n] = FailureLimit
    /\ vaults[o].is_active
    /\ hist.failRun[o] = FailureLimit - 1

\* The step in which the fetch of vault n returns holdings.
FetchSucceeds(n) ==
  /\ n \in DOMAIN vaults
  /\ wk[n].pc = "fetch"
  /\ wk'[n].pc # "fetch"
  /\ hist'.failTotal[n] = hist.failTotal[n]

\* C17 (Spec): a successful fetch of a vault with failures on its count sets the
\* count to 0 and last_successful_check to the time of the success, and the
\* count is always the number of failed fetches since the last successful one:
\* failures separated by a success do not add up.
C17_SuccessResetsFailures ==
  /\ [](\A n \in DOMAIN vaults : vaults[n].consecutive_failures = hist.failRun[n])
  /\ [][\A n \in Names :
          FetchSucceeds(n) /\ vaults[n].consecutive_failures > 0
            => /\ vaults'[n].consecutive_failures = 0
               /\ vaults'[n].last_successful_check = <<now>>
               /\ vaults'[n].is_active]_vars

\* A failure, a success and another failure: two failures in all, one on the
\* count.
C17_Witness ==
  \E n \in DOMAIN vaults :
    /\ hist.failTotal[n] = 2
    /\ hist.failRun[n] = 1
    /\ vaults[n].consecutive_failures = 1
    /\ vaults[n].last_successful_check # <<>>
    /\ vaults[n].is_active

\* Minutes after its last success by which a deactivated vault is to be active
\* again: the cool-off and one interval of the health monitor.
ReactivatedBy == (REACTIVATE_AFTER + HEALTH_CHECK_INTERVAL) \div SecondsPerMinute

\* C18 (SpecHealth): a vault that was deactivated after a success is active
\* again, without any fetch, once the cool-off since that success and one
\* interval of the health monitor have passed.
C18_ReactivatedAfterCoolOff ==
  \A n \in DOMAIN vaults :
    /\ vaults[n].last_successful_check # <<>>
    /\ now - vaults[n].last_successful_check[1] > ReactivatedBy
    => vaults[n].is_active

\* The vaults of the persisted file.
Persisted == IF disk = <<>> THEN {} ELSE DOMAIN disk[1].vaults

\* C19 (SpecHealth): no fetch starts or is in progress for an inactive vault, and a
\* vault whose third fetch in a row fails stays, inactive, in the vault map and
\* in the persisted file, in that step and in every later state.
C19_InactiveKeptNotFetched ==
  /\ [](\A n \in Names :
         /\ wk[n].pc = "fetch" => n \in DOMAIN vaults /\ vaults[n].is_active
         /\ hist.failRun[n] >= FailureLimit
              => /\ n \in DOMAIN vaults
                 /\ ~vaults[n].is_active
                 /\ n \in Persisted
                 /\ wk[n].pc # "fetch")
  /\ [][\A n \in Names :
          wk[n].pc # "fetch" /\ wk'[n].pc = "fetch" => vaults[n].is_active]_vars

\* A polling cycle after the one that deactivated a vault: the vault is left
\* out and the other, active vault is fetched.
C19_Witness ==
  \E n, o \in DOMAIN vaults :
    /\ ~vaults[n].is_active
    /\ hist.failRun[n] >= FailureLimit
    /\ vaults[n].last_successful_check # <<>>
    /\ (now - vaults[n].last_successful_check[1]) * SecondsPerMinute
         > FailureLimit * VAULT_CHECK_INTERVAL
    /\ n \in Persisted
    /\ wk[n].pc = "idle"
    /\ loop.pc = "gather"
    /\ wk[o].pc = "fetch"

\* ------------------------------------------------ properties, fetch layer

\* C20 (SpecFetch): in every state at most MAX_CONCURRENT_OPERATIONS calls to
\* the upstream API are in progress, over all tasks and all their attempts.
C20_CallsBoundedBySemaphore == CallsInProgress(api) <= MAX_CONCURRENT_OPERATIONS

\* C21 (SpecFetch): a task submits at most MAX_RETRIES calls, one per attempt,
\* whether its attempts end in a timeout or in an error; each backoff sleep is
\* longer than the one before; and a task whose attempts all failed has made
\* exactly MAX_RETRIES of them, has one failure on its vault's count and has
\* returned None to check_vault_changes.
C21_BoundedRetriesOneFailure ==
  /\ [](\A n \in Names :
         /\ hist.submitted[n] <= MAX_RETRIES
         /\ hist.timeouts[n] + hist.errors[n]
              = hist.submitted[n] - (IF wk[n].pc = "call" \/ wk[n].result = "user_state"
                                     THEN 1 ELSE 0)
         /\ wk[n].result = "None"
              => /\ wk[n].pc = "done"
                 /\ hist.timeouts[n] + hist.errors[n] = MAX_RETRIES
                 /\ vaults[n].consecutive_failures = 1
         /\ wk[n].result = "user_state" => vaults[n].consecutive_failures = 0)
  /\ [][\A n \in Names :
          wk[n].pc = "call" /\ wk'[n].pc = "backoff" => wk'[n].delay > wk[n].delay]_vars

\* A task whose attempts all failed, some by timeout and some by error.
C21_Witness ==
  \E n \in Names :
    /\ wk[n].result = "None"
    /\ hist.timeouts[n] > 0
    /\ hist.errors[n] > 0
    /\ wk[n].delay = backoff_delay(MAX_RETRIES - 2)

\* ------------------------------------------------- properties, scheduler

\* The ways a check runs to completion: it returns after updating the
\* snapshot, after a failed fetch, or after its except clause.
Completed == {"done", "failed", "errored"}

\* C22 (SpecCycle): when a cycle is over, the check of every vault that was
\* active at its start has run to completion, whatever happened to the checks
\* of the other vaults; and in the middle of a cycle the checks of the batches
\* before the current one have all run to completion.
C22_FailureIsolation ==
  /\ loop.pc = "sleep" /\ hist.cycles > 0
       => \A n \in Range(loop.active_vaults) : wk[n] \in Completed
  /\ loop.pc \in {"gather", "delay"}
       => \A k \in 1..loop.start : wk[loop.active_vaults[k]] \in Completed

\* A second cycle has started after a first one in which the fetch of V1
\* failed and the check of V2 raised an exception, with V4 in a second batch.
C22_Witness ==
  /\ hist.cycles = 1
  /\ loop.pc = "gather"
  /\ "V4" \in DOMAIN vaults
  /\ vaults["V1"].consecutive_failures = 1
  /\ vaults["V1"].last_successful_check = <<>>
  /\ vaults["V2"].consecutive_failures = 1
  /\ vaults["V2"].last_successful_check # <<>>
  /\ vaults["V4"].last_successful_check # <<>>

\* C23 (SpecStop): a cycle begins only when every task of the cycle before it
\* has returned, raised or been cancelled, and after any sequence of stop and
\* start requests at most one monitoring_loop task is running.
C23_OneLoopNoOverlap ==
  /\ [](hist.loops <= 1)
  /\ [](loop.pc \in {"sleep", "off"} => \A n \in DOMAIN wk : wk[n] \in Settled)
  /\ [][loop'.pc = "gather" /\ loop.pc # "gather"
          => \A n \in DOMAIN wk : wk[n] \in Settled]_vars

\* A loop started after a stop has begun a cycle of its own, after the loop
\* before it had completed one.
C23_Witness ==
  /\ hist.stops = 1
  /\ hist.loops = 1
  /\ hist.cycles > 0
  /\ hist.prev_start >= 0
  /\ loop.pc = "gather"
  /\ \E n \in DOMAIN wk : wk[n] = "fetch"

\* C24 (SpecCycle): the starts of two consecutive cycles are exactly one
\* VAULT_CHECK_INTERVAL apart (every cycle of the specification takes less
\* than the interval).
C24_NoDrift ==
  hist.prev_start >= 0
    => (hist.last_start - hist.prev_start) * SecondsPerTick = VAULT_CHECK_INTERVAL

\* C25 (SpecCycle): a batch has at most BATCH_SIZE tasks, and a batch after
\* the first of its cycle is created no earlier than VAULT_DELAY after the
\* gather of the batch before it returned.
C25_DelayBetweenBatches ==
  /\ Cardinality({n \in DOMAIN wk : wk[n] \in {"fetch", "alert"}}) <= BATCH_SIZE
  /\ loop.pc = "gather" /\ loop.start > 0
       => (hist.created - hist.gathered) * SecondsPerTick >= VAULT_DELAY

\* C26 (SpecStop): when the loop has returned after a stop request, every
\* check of the batch that was in flight has run to its end: none was
\* cancelled at its fetch and none was abandoned after its window insert and
\* before its snapshot update.
C26_CooperativeStop ==
  loop.pc = "off" => \A n \in DOMAIN wk : wk[n] \notin {"cancelled", "abandoned"}

\* C27 (Spec): the count before the insert, the insert and the re-read of one
\* evaluation are one step of the task, under every interleaving of the tasks
\* of a batch: with threshold 2, a step in which vault n inserts an event on a
\* coin whose window already holds an event of another vault ends at the
\* confluence alert of that event, and the group of the alert is the window
\* of the coin after the insert.
C27_SecondEvaluationAlerts ==
  [][\A n \in Names : \A c \in Coins :
       ( /\ settings.confluence_threshold = 2
         /\ EventsOf(trade_events', n, c) \ EventsOf(trade_events, n, c) # {}
         /\ \E e \in Range(trade_events) : e.coin = c /\ e.vault_name # n )
       => /\ wk'[n].pc = "confluence_alert"
          /\ wk'[n].ev.coin = c
          /\ wk'[n].ev.vault_name = n
          /\ wk'[n].group =
               get_confluence_events(trade_events', c, wk'[n].ev.timestamp,
                                     settings.confluence_window_minutes)]_vars

\* Two vaults changed the same coin in the same batch (their events carry the
\* same time while the gather is still waiting) with threshold 2, and the task
\* that evaluated second is at its alert with both events in the group.
C27_Witness ==
  \E n \in DOMAIN vaults : \E i \in 1..Len(wk[n].group) :
    LET e == wk[n].group[i]
    IN  /\ loop.pc = "gather"
        /\ settings.confluence_threshold = 2
        /\ wk[n].pc = "confluence_alert"
        /\ e.vault_name # n
        /\ e.coin = wk[n].ev.coin
        /\ e.timestamp = wk[n].ev.timestamp
        /\ Cardinality(UniqueVaults(wk[n].group)) = 2

\* ------------------------------------------------ properties, persistence

\* C28 (SpecSave): a crash at a point of a save (while or after the temp file
\* is written, after the live file is renamed to the backup, after the temp
\* file is renamed to the live file) is followed by a load that returns either
\* the data being saved or what a load returned when the save began, and the
\* process starts with those vaults; once a save has succeeded, the load after
\* a crash finds a file to read.
C28_CrashSafeSave ==
  [][restarts' = restarts + 1 =>
       /\ loop.pc \in {"write", "backup", "rename"} =>
            /\ load_data(disk') \in {hist.saving, hist.begin}
            /\ vaults' = IF load_data(disk') = <<>> THEN EmptyDict
                         ELSE load_data(disk')[1].vaults
       /\ (loop.pc = "idle" /\ hist.outcome = "ok") => load_data(disk') = hist.saving
       /\ hist.saved => load_data(disk') # <<>>]_vars

\* The process crashed between the two renames of a save, while no live file
\* existed, and started with the vaults of the backup file.
C28_Witness ==
  /\ restarts = 1
  /\ hist.crashed = "rename"
  /\ hist.saved
  /\ disk.live = <<>>
  /\ disk.backup # <<>>
  /\ vaults = disk.backup[1].data.vaults
  /\ vaults # EmptyDict
  /\ <<save_data(vaults, settings)>> = hist.begin

\* C29 (SpecSave): after a save that failed, a load returns what it returned
\* before the save began (the live state on disk is as before), the memory
\* holds the data that was being saved, and the process goes on.
C29_FailedSaveKeepsDisk ==
  hist.outcome = "failed" =>
    /\ load_data(disk) = hist.begin
    /\ <<save_data(vaults, settings)>> = hist.saving
    /\ loop.pc = "idle"

\* C30 (SpecRestart): every change of the configuration (vaults added, the
\* confluence threshold set) is on disk when the command returns: a restart at
\* any moment loads the vault names and the settings the process had in
\* memory.
C30_ConfigChangePersisted ==
  [][restarts' = restarts + 1 =>
       /\ settings' = settings
       /\ DOMAIN vaults' = DOMAIN vaults]_vars

\* ------------------------------------------------- properties, removal

\* The events of vault n in a window.
EventsOfVault(events, n) == {e \in Range(events) : e.vault_name = n}

\* C31 (SpecRemove): when remove_vault has returned, the removed vault has no
\* snapshot and no cooldown map, and no event of it is left in the instrument
\* window or the theme window.
C31_RemovalDiscardsHistory ==
  [][\A n \in Names :
       (n \in DOMAIN vaults /\ n \notin DOMAIN vaults') =>
         /\ AddressOf(n) \notin DOMAIN previous_positions'
         /\ AddressOf(n) \notin DOMAIN last_alerts'
         /\ EventsOfVault(trade_events', n) = {}
         /\ EventsOfVault(theme_events', n) = {}]_vars

\* C32 (SpecRemove): the first-scan flag of a configured vault never goes
\* back to false; a vault that is added, also under a name that was removed
\* before, starts with the flag false; and a successful poll of a vault whose
\* flag is false is suppressed: it inserts no event and fires no alert.
C32_BaselineFlagMonotonic ==
  [][\A n \in Names :
       /\ (n \in DOMAIN vaults /\ n \in DOMAIN vaults'
           /\ vaults[n].first_scan_completed) => vaults'[n].first_scan_completed
       /\ (n \notin DOMAIN vaults /\ n \in DOMAIN vaults')
            => ~vaults'[n].first_scan_completed
       /\ (FetchSucceeds(n) /\ ~vaults[n].first_scan_completed) =>
            /\ trade_events' = trade_events
            /\ theme_events' = theme_events
            /\ wk'[n].pc = "idle"
            /\ hist'.alerted = hist.alerted]_vars

\* ------------------------------------------------- properties, add_vault

\* C33 (SpecAdd): a call of add_vault with an address that has not the form of
\* an address, with a name that is in use, or with an address that is
\* monitored already (in any case of its letters) is refused and leaves the
\* vaults, the snapshots, the cooldowns and the disk as they were; and no two
\* vaults have the same address.
C33_InvalidAddRefused ==
  /\ [][hist'.calls = hist.calls + 1 =>
          LET address == hist'.address
              name == hist'.name
          IN  ( \/ address.form = "bad"
                \/ name \in DOMAIN vaults
                \/ \E x \in DOMAIN vaults : lower(vaults[x].address) = lower(address) )
              => /\ ~hist'.ok
                 /\ vaults' = vaults
                 /\ previous_positions' = previous_positions
                 /\ last_alerts' = last_alerts
                 /\ disk' = disk]_vars
  /\ [](\A x, y \in DOMAIN vaults :
          lower(vaults[x].address) = lower(vaults[y].address) => x = y)

\* ------------------------------------------- properties, alert delivery

C35_FailedFetchOnlyHealth ==
  [][\A n \in Names :
       (wk[n].pc = "fetch" /\ hist'.failTotal[n] = hist.failTotal[n] + 1)
       => /\ previous_positions' = previous_positions
          /\ trade_events' = trade_events
          /\ theme_events' = theme_events
          /\ last_alerts' = last_alerts
          /\ DOMAIN vaults' = DOMAIN vaults
          /\ \A x \in DOMAIN vaults \ {n} : vaults'[x] = vaults[x]
          /\ vaults'[n].first_scan_completed = vaults[n].first_scan_completed
          /\ vaults'[n].address = vaults[n].address
          /\ vaults'[n].last_successful_check = vaults[n].last_successful_check
          /\ vaults'[n].consecutive_failures = vaults[n].consecutive_failures + 1
          /\ wk'[n].pc = "idle"]_vars

\* A vault with a baseline and open positions in its snapshot has just had a
\* failed fetch: the positions are still in the snapshot.
C35_Witness ==
  \E n \in DOMAIN vaults :
    /\ hist.failRun[n] > 0
    /\ wk[n].pc = "idle"
    /\ vaults[n].first_scan_completed
    /\ vaults[n].consecutive_failures > 0
    /\ AddressOf(n) \in DOMAIN previous_positions
    /\ previous_positions[AddressOf(n)] # NoPositions

\* ------------------------------------- properties, maps under removal

\* C36 (SpecRemove): whatever add and remove commands and polling steps have
\* run, the snapshot map and the cooldown map have entries for the addresses
\* of configured vaults only.
C36_MapsOnlyConfigured ==
  LET configured == {vaults[n].address : n \in DOMAIN vaults}
  IN  /\ DOMAIN previous_positions \subseteq configured
      /\ DOMAIN last_alerts \subseteq configured

\* ------------------------------------------- properties, direction flips

\* The position of coin c changed its direction between the last two polls.
Flipped(c) ==
  /\ lastEval.ran
  /\ lastEval.previous_raw[c].kind = "ok"
  /\ lastEval.raw[c].kind = "ok"
  /\ lastEval.previous_raw[c].szi * lastEval.raw[c].szi < 0

\* C37 (SpecDiff): when the szi of a coin changes its sign between two polls,
\* bot.py's differ builds no TradeEvent for the coin if the magnitude is the
\* same, and else exactly one, from the old to the new absolute size, of type
\* INCREASE if the magnitude grew and DECREASE if it shrank.
C37_FlipSeenAsMagnitude ==
  \A c \in DiffCoins :
    Flipped(c) =>
      LET old == Abs(lastEval.previous_raw[c].szi)
          new == Abs(lastEval.raw[c].szi)
          of_coin == {i \in 1..Len(lastEval.events) : lastEval.events[i].coin = c}
      IN  IF old = new THEN of_coin = {}
          ELSE /\ Cardinality(of_coin) = 1
               /\ \A i \in of_coin :
                    /\ lastEval.events[i].old_size = old
                    /\ lastEval.events[i].new_size = new
                    /\ size_change(lastEval.events[i]) = Abs(new - old)
                    /\ trade_type(lastEval.events[i]) =
                         IF new > old THEN "INCREASE" ELSE "DECREASE"

\* One coin went from long to short with the same magnitude and the other
\* from short to a larger long position, in the same poll.
C37_Witness ==
  \E c, d \in DiffCoins :
    /\ Flipped(c)
    /\ Flipped(d)
    /\ lastEval.previous_raw[c].szi = -lastEval.raw[c].szi
    /\ lastEval.raw[c].szi < 0
    /\ lastEval.raw[d].szi > -lastEval.previous_raw[d].szi
    /\ lastEval.previous_raw[d].szi < 0
    /\ Len(lastEval.events) = 1

\* ------------------------------------------- properties, engine loops

\* C38 (SpecEngine): whatever start_monitoring and stop_monitoring calls have
\* been made, no address has two tasks of monitor_address_continuously that
\* have not returned and have both polled it since the last start that
\* created tasks.
C38_OneLoopPerAddress ==
  \A i \in 1..Len(TrackedAddresses) :
    Cardinality({t \in DOMAIN wk : /\ wk[t].address = TrackedAddresses[i]
                                   /\ wk[t].pc # "returned"
                                   /\ wk[t].polled = hist.starts}) <= 1

\* ------------------------------------------------- properties, fills

\* The fills of the list that come before the first one with hash h, all of
\* them if no fill of the list has it.
RECURSIVE Preceding(_, _)
Preceding(fills, h) ==
  IF fills = <<>> \/ Head(fills).hash = h THEN <<>>
  ELSE <<Head(fills)>> \o Preceding(Tail(fills), h)

\* C39 (SpecFills): over the polls of one address every fill goes to
\* parse_fill_to_trade at most once; once a poll has run, no fill of the list
\* that was there at the poll has been left out; and what the last
\* fetch_user_fills returned is the part of the list before the fill whose
\* hash was recorded as last seen (the whole list if none was recorded).
C39_EachFillOnce ==
  /\ \A i \in 1..MaxFills : hist.parsed[i] <= 1
  /\ lastEval.ran =>
       /\ \A i \in 1..Len(lastEval.fills) : hist.parsed[lastEval.fills[i].id] = 1
       /\ lastEval.new_fills =
            IF lastEval.last_seen = 0 THEN lastEval.fills
            ELSE Preceding(lastEval.fills, lastEval.last_seen)

\* ------------------------------------------------- properties, rate limit

\* C40 (SpecBudget): the number of HTTP requests sent within the counter's
\* minute is never above requests_per_minute, and whenever no call is in
\* progress requests_this_minute has counted every one of them.
C40_RequestsWithinLimit ==
  /\ hist.sent <= requests_per_minute
  /\ wk.pc = "idle" => loop.requests_this_minute >= hist.sent
====
